---- MODULE Spec2Model ----
(***************************************************************************)
(* A model of the glaze router: the per-method routing tree (addRoute,     *)
(* findRoute), route groups and their handler chains (Use, Group, handle), *)
(* and the dispatch pipeline of a request Context (Next, Abort, Recovery). *)
(*                                                                         *)
(* Strings are sequences of one-character strings, so that splitting and   *)
(* joining of paths are computed character by character as the code does.  *)
(* Go slices are modelled as (array, len, cap) headers over a heap of      *)
(* backing arrays, tree nodes as records in a heap of nodes; the value 0   *)
(* is the nil pointer and the slice header with arr = 0 is the nil slice.  *)
(***************************************************************************)
EXTENDS Integers, Sequences, FiniteSets, TLC

VARIABLES
    arrays,      \* heap of backing arrays of []HandlerFunc slices
    groups,      \* the Route values: groups[1] is the Route embedded in Engine
    nodes,       \* heap of tree nodes
    trees,       \* Engine.trees: method -> root node (0 = no entry)
    routeList,   \* Engine.routeList
    serving,     \* TRUE once RunAndListen has been entered
    lastCall,    \* the last setup call and how it ended
    registered,  \* history: the successful registrations, in order
    groupMw,     \* history: the middleware each group was given, in order
    resp,        \* the response sink of the request being served
    ctx,         \* the Context of the request being served
    stack,       \* the call stack of the goroutine serving the request
    trace,       \* history: what the handlers of the request did, in order
    panicking,   \* TRUE while a panic unwinds the serving goroutine
    outcome,     \* how ServeHTTP ended for the request being served
    log,         \* what serving the request has written to Engine.writer
    lookup,      \* the request of ServeHTTP and what findRoute returned for it
    calls,       \* history: how many setup calls were made
    listed,      \* the slice the last call of RoutesInfo returned
    finders,     \* the calls of findRoute made by concurrent goroutines
    keys,        \* Context.Keys of the request being served
    mu,          \* Context.mu of the request being served
    tasks,       \* the goroutines that call Set and Get on that Context
    parked       \* the goroutines that serve other requests, not running now

vars == <<arrays, groups, nodes, trees, routeList, serving, lastCall,
          registered, groupMw, resp, ctx, stack, trace, panicking, outcome,
          log, lookup, calls, listed, finders, keys, mu, tasks, parked>>

setupVars == <<arrays, groups, nodes, trees, routeList, lastCall,
               registered, groupMw, calls>>

reqVars == <<resp, ctx, stack, trace, panicking, outcome, log, lookup>>

\* the key/value store of the Context, its lock and the goroutines using it
storeVars == <<keys, mu, tasks>>

\* what no setup call and no dispatch step touches
sideVars == <<listed, finders, keys, mu, tasks, parked>>

(***************************************************************************)
(* Bounds of the model.                                                    *)
(***************************************************************************)
MaxRoutes == 3      \* registrations attempted on the engine (Spec)
MaxCalls  == 4      \* setup calls made on the engine and its groups (SpecGroups)
MaxChain  == 3      \* handlers in the chain that is dispatched (SpecDispatch)
MaxFinders == 2     \* goroutines that call findRoute at a time (SpecLookup)
MaxTasks  == 3      \* calls of Set and Get made on one Context (SpecStore)
MaxConns  == 2      \* requests served side by side (SpecRequests)
MaxLen    == 3      \* characters of a path given to Group (SpecJoin)

(***************************************************************************)
(* Characters and strings.                                                 *)
(***************************************************************************)
Slash == "/"
Colon == ":"

Upper == {"A", "B", "C", "D", "E", "F", "G", "H", "I", "J", "K", "L", "M",
          "N", "O", "P", "Q", "R", "S", "T", "U", "V", "W", "X", "Y", "Z"}

EmptyStr == << >>

\* strings.HasPrefix(part, ":")
HasPrefixColon(part) == Len(part) >= 1 /\ part[1] = Colon

\* regEnLetter.MatchString(method), regEnLetter = ^[A-Z]+$
regEnLetterMatch(method) ==
    /\ Len(method) >= 1
    /\ \A i \in 1..Len(method) : method[i] \in Upper

RECURSIVE TrimLeftSlash(_)
TrimLeftSlash(p) ==
    IF p # EmptyStr /\ Head(p) = Slash THEN TrimLeftSlash(Tail(p)) ELSE p

RECURSIVE TrimRightSlash(_)
TrimRightSlash(p) ==
    IF p # EmptyStr /\ p[Len(p)] = Slash
    THEN TrimRightSlash(SubSeq(p, 1, Len(p) - 1))
    ELSE p

\* strings.Trim(p, "/")
TrimSlash(p) == TrimRightSlash(TrimLeftSlash(p))

\* strings.Split(p, "/") of a non-empty p: the pieces between separators,
\* empty pieces included.  cur is the piece being read.
RECURSIVE SplitSlash(_, _)
SplitSlash(p, cur) ==
    IF p = EmptyStr THEN <<cur>>
    ELSE IF Head(p) = Slash THEN <<cur>> \o SplitSlash(Tail(p), EmptyStr)
    ELSE SplitSlash(Tail(p), Append(cur, Head(p)))

\* the filter loop of splitClean: keep the pieces that are not ""
DropEmpty(raw) == SelectSeq(raw, LAMBDA s : s # EmptyStr)

\* splitClean(p); the nil result and the empty result are both << >>
splitClean(p) ==
    LET t == TrimSlash(p) IN
    IF t = EmptyStr THEN << >>
    ELSE DropEmpty(SplitSlash(t, EmptyStr))

\* the elements of a path joined by single separators
RECURSIVE JoinSegs(_)
JoinSegs(segs) ==
    IF segs = << >> THEN EmptyStr
    ELSE IF Len(segs) = 1 THEN segs[1]
    ELSE segs[1] \o <<Slash>> \o JoinSegs(Tail(segs))

Dot == <<".">>

DotDot == <<".", ".">>

\* the elements path.Clean keeps: a "." element is dropped; a ".." element
\* takes away the element before it, is dropped at the root of a rooted
\* path and is kept at the front of a path that is not rooted
RECURSIVE cleanElems(_, _, _)
cleanElems(elems, out, rooted) ==
    IF elems = << >> THEN out
    ELSE LET e == Head(elems) IN
         IF e = Dot THEN cleanElems(Tail(elems), out, rooted)
         ELSE IF e = DotDot
         THEN IF out # << >> /\ out[Len(out)] # DotDot
              THEN cleanElems(Tail(elems), SubSeq(out, 1, Len(out) - 1), rooted)
              ELSE IF rooted THEN cleanElems(Tail(elems), out, rooted)
              ELSE cleanElems(Tail(elems), Append(out, e), rooted)
         ELSE cleanElems(Tail(elems), Append(out, e), rooted)

\* path.Clean(p): the kept elements joined by single separators, rooted
\* when p is rooted; "." when nothing is left
pathClean(p) ==
    LET rooted == p # EmptyStr /\ p[1] = Slash
        out == cleanElems(DropEmpty(SplitSlash(p, EmptyStr)), << >>, rooted)
        res == (IF rooted THEN <<Slash>> ELSE EmptyStr) \o JoinSegs(out)
    IN  IF res = EmptyStr THEN Dot ELSE res

\* path.Join(a, b): empty elements are skipped, the rest joined by "/"
\* and cleaned; "" when both are empty.
pathJoin(a, b) ==
    IF a = EmptyStr /\ b = EmptyStr THEN EmptyStr
    ELSE IF a = EmptyStr THEN pathClean(b)
    ELSE pathClean(a \o <<Slash>> \o b)

\* lastChar(str), called on non-empty strings only
lastChar(str) == str[Len(str)]

\* joinPath as it would be did it return what path.Join gives
joinPathJoinOnly(absolutePath, relativePath) ==
    IF relativePath = EmptyStr THEN absolutePath
    ELSE pathJoin(absolutePath, relativePath)

joinPath(absolutePath, relativePath) ==
    IF relativePath = EmptyStr THEN absolutePath
    ELSE LET finalPath == pathJoin(absolutePath, relativePath) IN
         IF lastChar(relativePath) = Slash /\ lastChar(finalPath) # Slash
         THEN finalPath \o <<Slash>>
         ELSE finalPath

(***************************************************************************)
(* Slices of handlers.  A handler is named by a string; "nil" is the zero  *)
(* value of an array cell that no slice has written yet.                   *)
(***************************************************************************)
NilHandler == "nil"

NilSlice == [arr |-> 0, len |-> 0, cap |-> 0]

\* the elements a slice header shows
SliceSeq(arrs, s) == IF s.arr = 0 THEN << >> ELSE SubSeq(arrs[s.arr], 1, s.len)

\* make(HandlersChain, n): a fresh array of n zero cells
makeSlice(arrs, n) ==
    [arrays |-> Append(arrs, [i \in 1..n |-> NilHandler]),
     slice  |-> [arr |-> Len(arrs) + 1, len |-> n, cap |-> n]]

\* copy(dst[from:], src): overwrite the cells of the array of dst
copyInto(arrs, dst, from, src) ==
    [arrs EXCEPT ![dst.arr] =
        [i \in 1..Len(arrs[dst.arr]) |->
            IF i > from /\ i <= from + Len(src) /\ i <= dst.len
            THEN src[i - from]
            ELSE arrs[dst.arr][i]]]

\* the capacity the runtime gives a grown slice of 8-byte elements:
\* the needed length when it exceeds twice the old capacity, else twice
\* the old capacity, rounded up to an allocation size class
growCap(oldCap, newLen) ==
    LET want == IF newLen > 2 * oldCap THEN newLen ELSE 2 * oldCap
    IN  IF want <= 4 THEN want ELSE want + (want % 2)

\* append(s, xs...): in place when the capacity allows, else into a
\* fresh array; appending nothing returns s itself
goAppend(arrs, s, xs) ==
    LET n == s.len + Len(xs) IN
    IF xs = << >> THEN [arrays |-> arrs, slice |-> s]
    ELSE IF n <= s.cap
    THEN [arrays |-> [arrs EXCEPT ![s.arr] =
                        [i \in 1..Len(arrs[s.arr]) |->
                            IF i > s.len /\ i <= n THEN xs[i - s.len]
                            ELSE arrs[s.arr][i]]],
          slice  |-> [arr |-> s.arr, len |-> n, cap |-> s.cap]]
    ELSE LET c == growCap(s.cap, n) IN
         [arrays |-> Append(arrs,
                        [i \in 1..c |->
                            IF i <= s.len THEN arrs[s.arr][i]
                            ELSE IF i <= n THEN xs[i - s.len]
                            ELSE NilHandler]),
          slice  |-> [arr |-> Len(arrs) + 1, len |-> n, cap |-> c]]

\* joinHandler as it would be were the merged chain built with
\* append(r.Handler, handlers...): the result may share the group's array
joinHandlerAppend(arrs, rHandler, handlers) == goAppend(arrs, rHandler, handlers)

\* Route.joinHandler: a fresh slice of exactly the merged size, the
\* group's handlers copied first and the given handlers after them
joinHandler(arrs, rHandler, handlers) ==
    LET finalSize == rHandler.len + Len(handlers)
        m  == makeSlice(arrs, finalSize)
        a1 == copyInto(m.arrays, m.slice, 0, SliceSeq(arrs, rHandler))
        a2 == copyInto(a1, m.slice, rHandler.len, handlers)
    IN  [arrays |-> a2, slice |-> m.slice]

(***************************************************************************)
(* The routing tree.                                                       *)
(***************************************************************************)
NoChildren == << >>

\* &node{segment: ..., param: ..., children: make(map[string]*node)}
NewNode(segment, param) ==
    [segment |-> segment, param |-> param, handlers |-> NilSlice,
     children |-> NoChildren, paramNode |-> 0]

\* the loop of addRoute as it would be without the check of lines 50-52
RECURSIVE addRouteWalkNoStaticCheck(_, _, _, _)
addRouteWalkNoStaticCheck(ns, current, parts, i) ==
    IF i > Len(parts) THEN [nodes |-> ns, current |-> current, err |-> "ok"]
    ELSE LET part == parts[i] IN
    IF HasPrefixColon(part)
    THEN IF part \in DOMAIN ns[current].children
         THEN [nodes |-> ns, current |-> current, err |-> "conflict_param"]
         ELSE IF ns[current].paramNode = 0
         THEN LET id == Len(ns) + 1 IN
              addRouteWalkNoStaticCheck(
                  Append([ns EXCEPT ![current].paramNode = id],
                         NewNode(Tail(part), TRUE)),
                  id, parts, i + 1)
         ELSE addRouteWalkNoStaticCheck(ns, ns[current].paramNode, parts, i + 1)
    ELSE IF part \in DOMAIN ns[current].children
         THEN addRouteWalkNoStaticCheck(ns, ns[current].children[part], parts,
                                        i + 1)
         ELSE LET id == Len(ns) + 1 IN
              addRouteWalkNoStaticCheck(
                  Append([ns EXCEPT ![current].children =
                                        (part :> id) @@ ns[current].children],
                         NewNode(part, FALSE)),
                  id, parts, i + 1)

\* the loop of addRoute as it would be did it look for the conflict of
\* lines 50-52 only after creating the static child
RECURSIVE addRouteWalkCreateFirst(_, _, _, _)
addRouteWalkCreateFirst(ns, current, parts, i) ==
    IF i > Len(parts) THEN [nodes |-> ns, current |-> current, err |-> "ok"]
    ELSE LET part == parts[i] IN
    IF HasPrefixColon(part)
    THEN IF part \in DOMAIN ns[current].children
         THEN [nodes |-> ns, current |-> current, err |-> "conflict_param"]
         ELSE IF ns[current].paramNode = 0
         THEN LET id == Len(ns) + 1 IN
              addRouteWalkCreateFirst(
                  Append([ns EXCEPT ![current].paramNode = id],
                         NewNode(Tail(part), TRUE)),
                  id, parts, i + 1)
         ELSE addRouteWalkCreateFirst(ns, ns[current].paramNode, parts, i + 1)
    ELSE LET exists == part \in DOMAIN ns[current].children
             id == IF exists THEN ns[current].children[part] ELSE Len(ns) + 1
             ns1 == IF exists THEN ns
                    ELSE Append([ns EXCEPT ![current].children =
                                        (part :> id) @@ ns[current].children],
                                NewNode(part, FALSE))
         IN  IF ns[current].paramNode # 0
             THEN [nodes |-> ns1, current |-> current,
                   err |-> "conflict_static"]
             ELSE addRouteWalkCreateFirst(ns1, id, parts, i + 1)

\* the loop of addRoute as it would be did it also enter a new parameter
\* child among the static children, under its ":name" token
RECURSIVE addRouteWalkKeyedParam(_, _, _, _)
addRouteWalkKeyedParam(ns, current, parts, i) ==
    IF i > Len(parts) THEN [nodes |-> ns, current |-> current, err |-> "ok"]
    ELSE LET part == parts[i] IN
    IF HasPrefixColon(part)
    THEN IF part \in DOMAIN ns[current].children
         THEN [nodes |-> ns, current |-> current, err |-> "conflict_param"]
         ELSE IF ns[current].paramNode = 0
         THEN LET id == Len(ns) + 1 IN
              addRouteWalkKeyedParam(
                  Append([ns EXCEPT ![current].paramNode = id,
                                    ![current].children =
                                        (part :> id) @@ ns[current].children],
                         NewNode(Tail(part), TRUE)),
                  id, parts, i + 1)
         ELSE addRouteWalkKeyedParam(ns, ns[current].paramNode, parts, i + 1)
    ELSE IF ns[current].paramNode # 0
         THEN [nodes |-> ns, current |-> current, err |-> "conflict_static"]
         ELSE IF part \in DOMAIN ns[current].children
         THEN addRouteWalkKeyedParam(ns, ns[current].children[part], parts,
                                     i + 1)
         ELSE LET id == Len(ns) + 1 IN
              addRouteWalkKeyedParam(
                  Append([ns EXCEPT ![current].children =
                                        (part :> id) @@ ns[current].children],
                         NewNode(part, FALSE)),
                  id, parts, i + 1)

\* the loop of addRoute over parts[i..]: the nodes as left by the walk,
\* the node reached, and the panic that stopped it, if any
RECURSIVE addRouteWalk(_, _, _, _)
addRouteWalk(ns, current, parts, i) ==
    IF i > Len(parts) THEN [nodes |-> ns, current |-> current, err |-> "ok"]
    ELSE LET part == parts[i] IN
    IF HasPrefixColon(part)
    THEN IF part \in DOMAIN ns[current].children
         THEN [nodes |-> ns, current |-> current, err |-> "conflict_param"]
         ELSE IF ns[current].paramNode = 0
         THEN LET id == Len(ns) + 1 IN
              addRouteWalk(
                  Append([ns EXCEPT ![current].paramNode = id],
                         NewNode(Tail(part), TRUE)),
                  id, parts, i + 1)
         ELSE addRouteWalk(ns, ns[current].paramNode, parts, i + 1)
    ELSE IF ns[current].paramNode # 0
         THEN [nodes |-> ns, current |-> current, err |-> "conflict_static"]
         ELSE IF part \in DOMAIN ns[current].children
         THEN addRouteWalk(ns, ns[current].children[part], parts, i + 1)
         ELSE LET id == Len(ns) + 1 IN
              addRouteWalk(
                  Append([ns EXCEPT ![current].children =
                                        (part :> id) @@ ns[current].children],
                         NewNode(part, FALSE)),
                  id, parts, i + 1)

\* addRoute as it would be did it append to the route list before the
\* check of lines 68-70
addRouteListFirst(ns, ts, rl, method, path, handlers) ==
    LET fresh == ts[method] = 0
        ns1 == IF fresh THEN Append(ns, NewNode(EmptyStr, FALSE)) ELSE ns
        ts1 == IF fresh THEN [ts EXCEPT ![method] = Len(ns) + 1] ELSE ts
        w   == addRouteWalk(ns1, ts1[method], splitClean(path), 1)
        rl1 == Append(rl, [Method |-> method, Path |-> path])
    IN  IF w.err # "ok"
        THEN [nodes |-> w.nodes, trees |-> ts1, routeList |-> rl,
              err |-> w.err, node |-> 0]
        ELSE IF w.nodes[w.current].handlers.arr # 0
        THEN [nodes |-> w.nodes, trees |-> ts1, routeList |-> rl1,
              err |-> "duplicate", node |-> 0]
        ELSE [nodes |-> [w.nodes EXCEPT ![w.current].handlers = handlers],
              trees |-> ts1, routeList |-> rl1,
              err |-> "ok", node |-> w.current]

\* addRoute as it would be did the engine keep one tree for all methods
addRouteOneTree(ns, ts, rl, method, path, handlers) ==
    LET fresh == ts[<<"G", "E", "T">>] = 0
        ns1 == IF fresh THEN Append(ns, NewNode(EmptyStr, FALSE)) ELSE ns
        ts1 == IF fresh THEN [ts EXCEPT ![<<"G", "E", "T">>] = Len(ns) + 1]
               ELSE ts
        w   == addRouteWalk(ns1, ts1[<<"G", "E", "T">>], splitClean(path), 1)
    IN  IF w.err # "ok"
        THEN [nodes |-> w.nodes, trees |-> ts1, routeList |-> rl,
              err |-> w.err, node |-> 0]
        ELSE IF w.nodes[w.current].handlers.arr # 0
        THEN [nodes |-> w.nodes, trees |-> ts1, routeList |-> rl,
              err |-> "duplicate", node |-> 0]
        ELSE [nodes |-> [w.nodes EXCEPT ![w.current].handlers = handlers],
              trees |-> ts1,
              routeList |-> Append(rl, [Method |-> method, Path |-> path]),
              err |-> "ok", node |-> w.current]

\* Engine.addRoute(method, path, handlers...): the engine as the call
\* leaves it, whether it returned ("ok") or panicked
addRoute(ns, ts, rl, method, path, handlers) ==
    LET fresh == ts[method] = 0
        ns1 == IF fresh THEN Append(ns, NewNode(EmptyStr, FALSE)) ELSE ns
        ts1 == IF fresh THEN [ts EXCEPT ![method] = Len(ns) + 1] ELSE ts
        w   == addRouteWalk(ns1, ts1[method], splitClean(path), 1)
    IN  IF w.err # "ok"
        THEN [nodes |-> w.nodes, trees |-> ts1, routeList |-> rl,
              err |-> w.err, node |-> 0]
        ELSE IF w.nodes[w.current].handlers.arr # 0
        THEN [nodes |-> w.nodes, trees |-> ts1, routeList |-> rl,
              err |-> "duplicate", node |-> 0]
        ELSE [nodes |-> [w.nodes EXCEPT ![w.current].handlers = handlers],
              trees |-> ts1,
              routeList |-> Append(rl, [Method |-> method, Path |-> path]),
              err |-> "ok", node |-> w.current]

\* the loop of findRoute as it would be did it try the parameter child
\* before the static children
RECURSIVE findRouteWalkParamFirst(_, _, _, _, _, _)
findRouteWalkParamFirst(ns, current, parts, i, bound, alloc) ==
    IF i > Len(parts)
    THEN [handlers |-> ns[current].handlers, params |-> bound,
          alloc |-> alloc, node |-> current]
    ELSE LET part == parts[i] IN
    IF ns[current].paramNode # 0
    THEN LET next == ns[current].paramNode IN
         findRouteWalkParamFirst(ns, next, parts, i + 1,
                                 (ns[next].segment :> part) @@ bound, TRUE)
    ELSE IF part \in DOMAIN ns[current].children
    THEN findRouteWalkParamFirst(ns, ns[current].children[part], parts, i + 1,
                                 bound, alloc)
    ELSE [handlers |-> NilSlice, params |-> << >>, alloc |-> FALSE, node |-> 0]

\* the loop of findRoute over parts[i..]; bound is the params map and
\* alloc tells whether it has been allocated (FALSE: the nil map)
RECURSIVE findRouteWalk(_, _, _, _, _, _)
findRouteWalk(ns, current, parts, i, bound, alloc) ==
    IF i > Len(parts)
    THEN [handlers |-> ns[current].handlers, params |-> bound,
          alloc |-> alloc, node |-> current]
    ELSE LET part == parts[i] IN
    IF part \in DOMAIN ns[current].children
    THEN findRouteWalk(ns, ns[current].children[part], parts, i + 1,
                       bound, alloc)
    ELSE IF ns[current].paramNode # 0
    THEN LET next == ns[current].paramNode IN
         findRouteWalk(ns, next, parts, i + 1,
                       (ns[next].segment :> part) @@ bound, TRUE)
    ELSE [handlers |-> NilSlice, params |-> << >>, alloc |-> FALSE, node |-> 0]

\* Engine.findRoute(method, path)
findRoute(ns, ts, method, path) ==
    IF ts[method] = 0
    THEN [handlers |-> NilSlice, params |-> << >>, alloc |-> FALSE, node |-> 0]
    ELSE findRouteWalk(ns, ts[method], splitClean(path), 1, << >>, FALSE)

(***************************************************************************)
(* The inputs of the setup calls.                                          *)
(***************************************************************************)
GET  == <<"G", "E", "T">>
POST == <<"P", "O", "S", "T">>
get  == <<"g", "e", "t">>
GEt  == <<"G", "E", "t">>
GET1 == <<"G", "E", "T", "1">>

\* the method strings given to handle and to findRoute; "" is one of them
Methods == {GET, POST, get, GEt, GET1, EmptyStr}

P_root == <<"/">>
P_a    == <<"/", "a">>
P_ab   == <<"/", "a", "/", "b">>
P_ac   == <<"/", "a", "/", "c">>
P_ax   == <<"/", "a", "/", ":", "x">>
P_ayb  == <<"/", "a", "/", ":", "y", "/", "b">>
P_aSSbS == <<"/", "a", "/", "/", "b", "/">>

\* the handlers a program may install, and what each one does when run;
\* the handler keep, used where requests are served side by side, stores
\* the parameter x of its request under a key, calls Next() and reads the
\* key back
HandlerNames == {"hA", "hB", "gate", "wrap", "late", "twice", "boom",
                 "Recovery"}

Body(h) ==
    CASE h = "hA"       -> <<"write">>
      [] h = "hB"       -> <<"write">>
      [] h = "gate"     -> <<"abort", "write">>
      [] h = "wrap"     -> <<"next", "write">>
      [] h = "late"     -> <<"next", "abort">>
      [] h = "twice"    -> <<"next", "next", "write">>
      [] h = "boom"     -> <<"write", "panic">>
      [] h = "Recovery" -> <<"defer", "next">>
      [] h = "keep"     -> <<"set", "next", "get">>

(***************************************************************************)
(* The initial state: New() has returned and no call has been made.        *)
(***************************************************************************)
NoCall == [op |-> "none", group |-> 0, method |-> EmptyStr,
           path |-> EmptyStr, err |-> "ok"]

NoCtx == [handlers |-> NilSlice, index |-> -1, stopped |-> FALSE,
          Params |-> << >>, alloc |-> FALSE]

NoResp == [status |-> 0, body |-> << >>]

NoLookup == [method |-> EmptyStr, path |-> EmptyStr, handlers |-> NilSlice,
             params |-> << >>, alloc |-> FALSE, node |-> 0]

\* the zero value of Context.Keys (the nil map) and of Context.mu
NoKeys == [alloc |-> FALSE, map |-> << >>]

Unlocked == [writer |-> FALSE, readers |-> 0]

Init ==
    /\ arrays = << >>
    /\ groups = <<[Path |-> EmptyStr, Handler |-> NilSlice]>>
    /\ nodes = << >>
    /\ trees = [m \in Methods |-> 0]
    /\ routeList = << >>
    /\ serving = FALSE
    /\ lastCall = NoCall
    /\ registered = << >>
    /\ groupMw = << << >> >>
    /\ resp = NoResp
    /\ ctx = NoCtx
    /\ stack = << >>
    /\ trace = << >>
    /\ panicking = FALSE
    /\ outcome = "idle"
    /\ log = << >>
    /\ lookup = NoLookup
    /\ calls = 0
    /\ listed = << >>
    /\ finders = << >>
    /\ keys = NoKeys
    /\ mu = Unlocked
    /\ tasks = << >>
    /\ parked = << >>

(***************************************************************************)
(* Setup calls.  They are made before the server runs.                     *)
(***************************************************************************)
\* Route.Use(middleware...) on group g
Use(g, middleware) ==
    /\ ~serving
    /\ LET a == goAppend(arrays, groups[g].Handler, middleware) IN
        /\ arrays' = a.arrays
        /\ groups' = [groups EXCEPT ![g].Handler = a.slice]
    /\ groupMw' = [groupMw EXCEPT ![g] = @ \o middleware]
    /\ lastCall' = [NoCall EXCEPT !.op = "Use", !.group = g]
    /\ calls' = calls + 1
    /\ UNCHANGED <<nodes, trees, routeList, registered, serving>>
    /\ UNCHANGED reqVars
    /\ UNCHANGED sideVars

\* Route.Group(path, handlers...) on group g
Group(g, path, handlers) ==
    /\ ~serving
    /\ LET j == joinHandler(arrays, groups[g].Handler, handlers) IN
        /\ arrays' = j.arrays
        /\ groups' = Append(groups,
                        [Path |-> joinPath(groups[g].Path, path),
                         Handler |-> j.slice])
    /\ groupMw' = Append(groupMw,
                    SliceSeq(arrays, groups[g].Handler) \o handlers)
    /\ lastCall' = [NoCall EXCEPT !.op = "Group", !.group = g, !.path = path]
    /\ calls' = calls + 1
    /\ UNCHANGED <<nodes, trees, routeList, registered, serving>>
    /\ UNCHANGED reqVars
    /\ UNCHANGED sideVars

\* Route.handle as it would be did it test the method after addRoute
HandleCheckLast(g, method, relativePath, handlers) ==
    /\ ~serving
    /\ calls' = calls + 1
    /\ LET absolutePath == joinPath(groups[g].Path, relativePath)
           j == joinHandler(arrays, groups[g].Handler, handlers)
           r == addRoute(nodes, trees, routeList, method, absolutePath,
                         j.slice)
           bad == ~regEnLetterMatch(method)
       IN  /\ arrays' = j.arrays
           /\ nodes' = r.nodes
           /\ trees' = r.trees
           /\ routeList' = r.routeList
           /\ registered' =
                IF r.err = "ok" /\ ~bad
                THEN Append(registered,
                       [method |-> method, path |-> absolutePath,
                        node |-> r.node, slice |-> j.slice,
                        chain |-> SliceSeq(arrays, groups[g].Handler)
                                    \o handlers])
                ELSE registered
           /\ lastCall' = [op |-> "handle", group |-> g,
                           method |-> method,
                           path |-> IF bad THEN relativePath ELSE absolutePath,
                           err |-> IF bad THEN "invalid_method" ELSE r.err]
    /\ UNCHANGED <<groups, groupMw, serving>>
    /\ UNCHANGED reqVars
    /\ UNCHANGED sideVars

\* Route.handle(method, relativePath, handlers...) on group g, as reached
\* through Get, Post, ...; err tells how the call ended
Handle(g, method, relativePath, handlers) ==
    /\ ~serving
    /\ calls' = calls + 1
    /\ IF ~regEnLetterMatch(method)
       THEN /\ lastCall' = [op |-> "handle", group |-> g, method |-> method,
                            path |-> relativePath, err |-> "invalid_method"]
            /\ UNCHANGED <<arrays, nodes, trees, routeList, registered>>
       ELSE LET absolutePath == joinPath(groups[g].Path, relativePath)
                j == joinHandler(arrays, groups[g].Handler, handlers)
                r == addRoute(nodes, trees, routeList, method, absolutePath,
                              j.slice)
            IN  /\ arrays' = j.arrays
                /\ nodes' = r.nodes
                /\ trees' = r.trees
                /\ routeList' = r.routeList
                /\ registered' =
                     IF r.err = "ok"
                     THEN Append(registered,
                            [method |-> method, path |-> absolutePath,
                             node |-> r.node, slice |-> j.slice,
                             chain |-> SliceSeq(arrays, groups[g].Handler)
                                         \o handlers])
                     ELSE registered
                /\ lastCall' = [op |-> "handle", group |-> g,
                                method |-> method, path |-> absolutePath,
                                err |-> r.err]
    /\ UNCHANGED <<groups, groupMw, serving>>
    /\ UNCHANGED reqVars
    /\ UNCHANGED sideVars

\* the characters of the paths, in the order of their bytes
Bytes == <<".", "/", ":", "a", "b", "c", "v", "x", "y">>

Ord(ch) == CHOOSE k \in 1..Len(Bytes) : Bytes[k] = ch

\* a < b on strings: the byte-wise lexical order
RECURSIVE StrLess(_, _)
StrLess(a, b) ==
    IF b = EmptyStr THEN FALSE
    ELSE IF a = EmptyStr THEN TRUE
    ELSE IF Head(a) # Head(b) THEN Ord(Head(a)) < Ord(Head(b))
    ELSE StrLess(Tail(a), Tail(b))

\* the less function RoutesInfo gives to sort.Slice
routeLess(ri, rj) ==
    IF Len(ri.Path) = Len(rj.Path) THEN StrLess(ri.Path, rj.Path)
    ELSE Len(ri.Path) > Len(rj.Path)

\* the rearrangements of rl
Rearranged(rl) ==
    {[i \in 1..Len(rl) |-> rl[f[i]]] :
        f \in {g \in [1..Len(rl) -> 1..Len(rl)] :
                  \A i, j \in 1..Len(rl) : i # j => g[i] # g[j]}}

\* sort.Slice(result, less): result rearranged so that no element is less
\* than one before it; the sort is not guaranteed to be stable, so elements
\* of which neither is less than the other may end in either order
sortSlice(result) ==
    {s \in Rearranged(result) :
        \A i, j \in 1..Len(s) : i < j => ~routeLess(s[j], s[i])}

\* Engine.RoutesInfo(): a sorted copy of the route list
RoutesInfo ==
    /\ \E result \in sortSlice(routeList) : listed' = result
    /\ UNCHANGED <<finders, keys, mu, tasks, parked, serving>>
    /\ UNCHANGED setupVars
    /\ UNCHANGED reqVars

\* Engine.RunAndListen: the routes are printed to the engine's writer (the
\* engine is not in release mode); from here on the calling goroutine
\* only serves
RunAndListen ==
    /\ ~serving
    /\ serving' = TRUE
    /\ \E result \in sortSlice(routeList) :
          log' = result \o <<"listen on">>
    /\ UNCHANGED <<resp, ctx, stack, trace, panicking, outcome, lookup>>
    /\ UNCHANGED setupVars
    /\ UNCHANGED sideVars

(***************************************************************************)
(* The response sink: the first status written stays, a body write         *)
(* without a status writes 200 first.                                      *)
(***************************************************************************)
WriteHeader(w, code) == IF w.status = 0 THEN [w EXCEPT !.status = code] ELSE w

Write(w, bytes) ==
    [status |-> IF w.status = 0 THEN 200 ELSE w.status,
     body   |-> Append(w.body, bytes)]

\* Context.String(code, msg)
String(w, code, msg) == Write(WriteHeader(w, code), msg)

\* http.NotFound(w, req)
NotFound(w) == Write(WriteHeader(w, 404), "404 page not found")

(***************************************************************************)
(* Serving a request.  The goroutine's call stack is a sequence of frames, *)
(* the running one last: a frame of Context.Next is at "enter" (about to   *)
(* run its body), "inHandler" (in the call of line 48) or "inNext" (in the *)
(* call of line 50); a frame of a handler is at statement pc of its body.  *)
(***************************************************************************)
NextFrame(at) ==
    [kind |-> "Next", at |-> at, h |-> NilHandler, idx |-> -1, pc |-> 0,
     deferred |-> FALSE]

HandlerFrame(h, idx) ==
    [kind |-> "handler", at |-> "body", h |-> h, idx |-> idx, pc |-> 1,
     deferred |-> FALSE]

Top(stk) == stk[Len(stk)]

Pop(stk) == SubSeq(stk, 1, Len(stk) - 1)

SetTop(stk, f) == [stk EXCEPT ![Len(stk)] = f]

\* the stack after the Next frame on top returns: a caller that was in
\* the call of line 50 has nothing left to do and returns as well
RECURSIVE ReturnFromNext(_)
ReturnFromNext(stk) ==
    LET rest == Pop(stk) IN
    IF rest # << >> /\ Top(rest).kind = "Next" /\ Top(rest).at = "inNext"
    THEN ReturnFromNext(rest)
    ELSE rest

Ended(stk, now) == IF stk = << >> THEN "done" ELSE now

\* ServeHTTP as it would be did it test len(handlers) == 0
ServeHTTPLenCheck(method, path) ==
    /\ serving
    /\ stack = << >>
    /\ LET f == findRoute(nodes, trees, method, path) IN
        /\ lookup' = [method |-> method, path |-> path,
                      handlers |-> f.handlers, params |-> f.params,
                      alloc |-> f.alloc, node |-> f.node]
        /\ IF f.handlers.len = 0
           THEN /\ resp' = NotFound(NoResp)
                /\ ctx' = NoCtx
                /\ stack' = << >>
                /\ outcome' = "notfound"
           ELSE /\ resp' = NoResp
                /\ ctx' = [handlers |-> f.handlers, index |-> -1,
                           stopped |-> FALSE, Params |-> f.params,
                           alloc |-> f.alloc]
                /\ stack' = <<NextFrame("enter")>>
                /\ outcome' = "running"
    /\ trace' = << >>
    /\ panicking' = FALSE
    /\ log' = << >>
    /\ UNCHANGED serving
    /\ UNCHANGED setupVars
    /\ keys' = NoKeys
    /\ mu' = Unlocked
    /\ tasks' = << >>
    /\ UNCHANGED <<parked, listed, finders>>

\* Engine.ServeHTTP(w, req)
ServeHTTP(method, path) ==
    /\ serving
    /\ stack = << >>
    /\ LET f == findRoute(nodes, trees, method, path) IN
        /\ lookup' = [method |-> method, path |-> path,
                      handlers |-> f.handlers, params |-> f.params,
                      alloc |-> f.alloc, node |-> f.node]
        /\ IF f.handlers.arr = 0
           THEN /\ resp' = NotFound(NoResp)
                /\ ctx' = NoCtx
                /\ stack' = << >>
                /\ outcome' = "notfound"
           ELSE /\ resp' = NoResp
                /\ ctx' = [handlers |-> f.handlers, index |-> -1,
                           stopped |-> FALSE, Params |-> f.params,
                           alloc |-> f.alloc]
                /\ stack' = <<NextFrame("enter")>>
                /\ outcome' = "running"
    /\ trace' = << >>
    /\ panicking' = FALSE
    /\ log' = << >>
    /\ UNCHANGED serving
    /\ UNCHANGED setupVars
    /\ keys' = NoKeys
    /\ mu' = Unlocked
    /\ tasks' = << >>
    /\ UNCHANGED <<parked, listed, finders>>

\* the chain positions whose handler was started, in the order of the calls
Invoked == LET starts == SelectSeq(trace, LAMBDA e : e[1] = "start")
           IN  [k \in 1..Len(starts) |-> starts[k][2]]

\* the chain positions whose handler did op
Did(op) == {trace[k][2] : k \in {j \in 1..Len(trace) : trace[j][1] = op}}

Running(kind) == stack # << >> /\ ~panicking /\ Top(stack).kind = kind

\* Context.Next, lines 39-41: the chain is stopped
NextStopped ==
    /\ Running("Next") /\ Top(stack).at = "enter"
    /\ ctx.stopped
    /\ stack' = ReturnFromNext(stack)
    /\ outcome' = Ended(stack', outcome)
    /\ UNCHANGED <<resp, ctx, trace, panicking, log, lookup, serving>>
    /\ UNCHANGED setupVars
    /\ UNCHANGED sideVars

\* lines 43-48 as they would be without the test of lines 39-41
NextInvokeIgnoresStop ==
    /\ Running("Next") /\ Top(stack).at = "enter"
    /\ ctx.index + 1 < ctx.handlers.len
    /\ LET i == ctx.index + 1 IN
        /\ ctx' = [ctx EXCEPT !.index = i]
        /\ stack' = Append(SetTop(stack, NextFrame("inHandler")),
                           HandlerFrame(arrays[ctx.handlers.arr][i + 1], i))
        /\ trace' = Append(trace, <<"start", i>>)
    /\ UNCHANGED <<resp, panicking, outcome, log, lookup, serving>>
    /\ UNCHANGED setupVars
    /\ UNCHANGED sideVars

\* lines 43-48 as they would be did the call not store the moved cursor
NextInvokeNoAdvance ==
    /\ Running("Next") /\ Top(stack).at = "enter"
    /\ ~ctx.stopped
    /\ ctx.index + 1 < ctx.handlers.len
    /\ LET i == ctx.index + 1 IN
        /\ stack' = Append(SetTop(stack, NextFrame("inHandler")),
                           HandlerFrame(arrays[ctx.handlers.arr][i + 1], i))
        /\ trace' = Append(trace, <<"start", i>>)
    /\ UNCHANGED <<resp, ctx, panicking, outcome, log, lookup, serving>>
    /\ UNCHANGED setupVars
    /\ UNCHANGED sideVars

\* Context.Next, lines 43-48: move the cursor and call the handler there
NextInvoke ==
    /\ Running("Next") /\ Top(stack).at = "enter"
    /\ ~ctx.stopped
    /\ ctx.index + 1 < ctx.handlers.len
    /\ LET i == ctx.index + 1 IN
        /\ ctx' = [ctx EXCEPT !.index = i]
        /\ stack' = Append(SetTop(stack, NextFrame("inHandler")),
                           HandlerFrame(arrays[ctx.handlers.arr][i + 1], i))
        /\ trace' = Append(trace, <<"start", i>>)
    /\ UNCHANGED <<resp, panicking, outcome, log, lookup, serving>>
    /\ UNCHANGED setupVars
    /\ UNCHANGED sideVars

\* lines 43-46 and 52 as they would be did the cursor stay on the last
\* handler when none is left
NextPastEndKeepCursor ==
    /\ Running("Next") /\ Top(stack).at = "enter"
    /\ ~ctx.stopped
    /\ ~(ctx.index + 1 < ctx.handlers.len)
    /\ stack' = ReturnFromNext(stack)
    /\ outcome' = Ended(stack', outcome)
    /\ UNCHANGED <<resp, ctx, trace, panicking, log, lookup, serving>>
    /\ UNCHANGED setupVars
    /\ UNCHANGED sideVars

\* Context.Next, lines 43-46 and 52: the cursor leaves the chain
NextPastEnd ==
    /\ Running("Next") /\ Top(stack).at = "enter"
    /\ ~ctx.stopped
    /\ ~(ctx.index + 1 < ctx.handlers.len)
    /\ ctx' = [ctx EXCEPT !.index = @ + 1]
    /\ stack' = ReturnFromNext(stack)
    /\ outcome' = Ended(stack', outcome)
    /\ UNCHANGED <<resp, trace, panicking, log, lookup, serving>>
    /\ UNCHANGED setupVars
    /\ UNCHANGED sideVars

\* Context.Param(key): the value bound to key, "" when none is
Param(c, key) == IF key \in DOMAIN c.Params THEN c.Params[key] ELSE EmptyStr

\* the key under which the handler keep stores, and the parameter it stores
StoreKey == "k1"

ParamX == <<"x">>

\* Context.Set(key, value) from Lock to Unlock, on a Context whose lock is
\* free: the map is made when it is nil and the value is stored
SetDone(ks, key, value) ==
    [alloc |-> TRUE, map |-> (key :> value) @@ ks.map]

\* Context.Get(key) from RLock to RUnlock: the value and whether it exists
GetDone(ks, key) ==
    IF key \in DOMAIN ks.map THEN <<ks.map[key], TRUE>> ELSE <<"nil", FALSE>>

\* one statement of the running handler
HandlerStep ==
    /\ Running("handler")
    /\ Top(stack).pc <= Len(Body(Top(stack).h))
    /\ LET f == Top(stack)
           op == Body(f.h)[f.pc]
           g == [f EXCEPT !.pc = @ + 1]
       IN  CASE op = "write" ->
                   /\ resp' = String(resp, 200, f.h)
                   /\ stack' = SetTop(stack, g)
                   /\ trace' = Append(trace, <<op, f.idx>>)
                   /\ UNCHANGED <<ctx, panicking, keys>>
             [] op = "abort" ->
                   /\ ctx' = [ctx EXCEPT !.stopped = TRUE]
                   /\ stack' = SetTop(stack, g)
                   /\ trace' = Append(trace, <<op, f.idx>>)
                   /\ UNCHANGED <<resp, panicking, keys>>
             [] op = "next" ->
                   /\ stack' = Append(SetTop(stack, g), NextFrame("enter"))
                   /\ trace' = Append(trace, <<op, f.idx>>)
                   /\ UNCHANGED <<resp, ctx, panicking, keys>>
             [] op = "defer" ->
                   /\ stack' = SetTop(stack, [g EXCEPT !.deferred = TRUE])
                   /\ trace' = Append(trace, <<op, f.idx>>)
                   /\ UNCHANGED <<resp, ctx, panicking, keys>>
             [] op = "panic" ->
                   /\ panicking' = TRUE
                   /\ trace' = Append(trace, <<op, f.idx>>)
                   /\ UNCHANGED <<resp, ctx, stack, keys>>
             [] op = "set" ->
                   /\ mu = Unlocked
                   /\ keys' = SetDone(keys, StoreKey, Param(ctx, ParamX))
                   /\ stack' = SetTop(stack, g)
                   /\ trace' = Append(trace, <<op, f.idx>>)
                   /\ UNCHANGED <<resp, ctx, panicking>>
             [] op = "get" ->
                   /\ ~mu.writer
                   /\ stack' = SetTop(stack, g)
                   /\ trace' = Append(trace,
                                    <<op, f.idx, GetDone(keys, StoreKey)>>)
                   /\ UNCHANGED <<resp, ctx, panicking, keys>>
    /\ UNCHANGED <<outcome, log, lookup, serving>>
    /\ UNCHANGED setupVars
    /\ UNCHANGED <<listed, finders, mu, tasks, parked>>

\* the return of a handler as it would be without the call of line 50
HandlerReturnNoAdvance ==
    /\ Running("handler")
    /\ Top(stack).pc > Len(Body(Top(stack).h))
    /\ stack' = ReturnFromNext(Pop(stack))
    /\ outcome' = Ended(stack', outcome)
    /\ trace' = Append(trace, <<"return", Top(stack).idx>>)
    /\ UNCHANGED <<resp, ctx, panicking, log, lookup, serving>>
    /\ UNCHANGED setupVars
    /\ UNCHANGED sideVars

\* the running handler returns into line 48 of Next, which goes on to
\* line 50 and calls Next again
HandlerReturn ==
    /\ Running("handler")
    /\ Top(stack).pc > Len(Body(Top(stack).h))
    /\ stack' = Append(SetTop(Pop(stack), NextFrame("inNext")),
                       NextFrame("enter"))
    /\ trace' = Append(trace, <<"return", Top(stack).idx>>)
    /\ UNCHANGED <<resp, ctx, panicking, outcome, log, lookup, serving>>
    /\ UNCHANGED setupVars
    /\ UNCHANGED sideVars

\* the frames that have a deferred recover
Deferred(stk) == {i \in 1..Len(stk) : stk[i].deferred}

\* the deferred function of Recovery as it would be without line 202
RecoverNoStop ==
    /\ panicking
    /\ Deferred(stack) # {}
    /\ LET k == CHOOSE i \in Deferred(stack) :
                    \A j \in Deferred(stack) : j <= i
           f == stack[k]
       IN  /\ stack' = Append(SubSeq(stack, 1, k - 1),
                              [f EXCEPT !.pc = Len(Body(f.h)) + 1,
                                        !.deferred = FALSE])
           /\ trace' = Append(trace, <<"recover", f.idx>>)
    /\ log' = Append(log, "[PANIC]")
    /\ resp' = Write(WriteHeader(resp, 500), "Internal Server Error")
    /\ panicking' = FALSE
    /\ UNCHANGED <<ctx, outcome, lookup, serving>>
    /\ UNCHANGED setupVars
    /\ UNCHANGED sideVars

\* the deferred function of Recovery, glaze.go lines 199-218, run by the
\* innermost Recovery frame while the panic unwinds; Recovery then returns
Recover ==
    /\ panicking
    /\ Deferred(stack) # {}
    /\ LET k == CHOOSE i \in Deferred(stack) :
                    \A j \in Deferred(stack) : j <= i
           f == stack[k]
       IN  stack' = Append(SubSeq(stack, 1, k - 1),
                           [f EXCEPT !.pc = Len(Body(f.h)) + 1,
                                     !.deferred = FALSE])
    /\ ctx' = [ctx EXCEPT !.stopped = TRUE]
    /\ log' = Append(log, "[PANIC]")
    /\ resp' = Write(WriteHeader(resp, 500), "Internal Server Error")
    /\ panicking' = FALSE
    /\ trace' = Append(trace, <<"recover", stack[CHOOSE i \in Deferred(stack) :
                                   \A j \in Deferred(stack) : j <= i].idx>>)
    /\ UNCHANGED <<outcome, lookup, serving>>
    /\ UNCHANGED setupVars
    /\ UNCHANGED sideVars

\* no frame recovers: the panic leaves ServeHTTP
Propagate ==
    /\ panicking
    /\ Deferred(stack) = {}
    /\ stack' = << >>
    /\ panicking' = FALSE
    /\ outcome' = "panic"
    /\ UNCHANGED <<resp, ctx, trace, log, lookup, serving>>
    /\ UNCHANGED setupVars
    /\ UNCHANGED sideVars

Dispatch ==
    \/ NextStopped
    \/ NextInvoke
    \/ NextPastEnd
    \/ HandlerStep
    \/ HandlerReturn
    \/ Recover
    \/ Propagate

(***************************************************************************)
(* Spec: routes are registered on the engine, the server is started and    *)
(* requests are served one after the other.  The handlers registered here  *)
(* only write, so of the dispatch steps only those of Plain can occur.     *)
(***************************************************************************)
P_av  == <<"/", "a", "/", "v">>
P_avb == <<"/", "a", "/", "v", "/", "b">>
P_avc == <<"/", "a", "/", "v", "/", "c">>
P_abb == <<"/", "a", "/", "b", "/", "b">>

\* the handlers given to one registration
HandlerLists == {<< >>, <<"hA">>}

\* the (method, relative path, handlers) registered
RouteInputs ==
    ({GET} \X {P_root, P_ab, P_ax, P_ayb, P_aSSbS} \X {<<"hA">>})
        \cup ({GET} \X {P_ab} \X {<< >>})
        \cup ({POST, get} \X {P_ab} \X {<<"hA">>})

\* the requests served
Requests ==
    ({GET} \X {P_root, P_a, P_ab, P_ax, P_ayb, P_aSSbS, EmptyStr, P_av,
               P_avb, P_ac, P_abb})
        \cup ({POST} \X {P_ab, P_av})

Register ==
    /\ calls < MaxRoutes
    /\ \E in \in RouteInputs : Handle(1, in[1], in[2], in[3])

Serve == \E rq \in Requests : ServeHTTP(rq[1], rq[2])

Plain == NextInvoke \/ NextPastEnd \/ HandlerStep \/ HandlerReturn

Next == Register \/ RunAndListen \/ Serve \/ Plain

Spec == Init /\ [][Next]_vars

(***************************************************************************)
(* SpecGroups: middleware is added, groups are created and routes are      *)
(* registered on the engine and on its groups, in any order.               *)
(***************************************************************************)
UseLists == {<<"Recovery">>, <<"wrap", "gate">>}

GroupInputs == {<<P_a, << >> >>, <<<<"/", "a", "/">>, <<"hB">> >>}

GroupRoutes == {<<"/", "b">>, <<"/", "c">>}

AddMiddleware ==
    /\ calls < MaxCalls
    /\ \E g \in 1..Len(groups), mw \in UseLists : Use(g, mw)

AddGroup ==
    /\ calls < MaxCalls
    /\ \E g \in 1..Len(groups), in \in GroupInputs : Group(g, in[1], in[2])

AddRoute ==
    /\ calls < MaxCalls
    /\ \E g \in 1..Len(groups), p \in GroupRoutes, hs \in HandlerLists :
          Handle(g, GET, p, hs)

NextGroups == AddMiddleware \/ AddGroup \/ AddRoute

SpecGroups == Init /\ [][NextGroups]_vars

(***************************************************************************)
(* SpecDispatch: the engine has one route, GET /, whose chain is any list  *)
(* of at most MaxChain handlers; the server runs and serves GET /.         *)
(***************************************************************************)
RECURSIVE SeqsUpTo(_, _)
SeqsUpTo(S, n) ==
    IF n = 0 THEN {<< >>}
    ELSE LET shorter == SeqsUpTo(S, n - 1) IN
         shorter \cup {Append(q, x) : q \in shorter, x \in S}

Chains == SeqsUpTo(HandlerNames, MaxChain)

InitDispatch ==
    \E chain \in Chains :
        LET j == joinHandler(<< >>, NilSlice, chain)
            r == addRoute(<< >>, [m \in Methods |-> 0], << >>, GET, P_root,
                          j.slice)
        IN  /\ arrays = j.arrays
            /\ groups = <<[Path |-> EmptyStr, Handler |-> NilSlice]>>
            /\ nodes = r.nodes
            /\ trees = r.trees
            /\ routeList = r.routeList
            /\ serving = TRUE
            /\ lastCall = [op |-> "handle", group |-> 1, method |-> GET,
                           path |-> P_root, err |-> r.err]
            /\ registered = <<[method |-> GET, path |-> P_root,
                               node |-> r.node, slice |-> j.slice,
                               chain |-> chain]>>
            /\ groupMw = << << >> >>
            /\ resp = NoResp
            /\ ctx = NoCtx
            /\ stack = << >>
            /\ trace = << >>
            /\ panicking = FALSE
            /\ outcome = "idle"
            /\ log = << >>
            /\ lookup = NoLookup
            /\ calls = 1
            /\ listed = << >>
            /\ finders = << >>
            /\ keys = NoKeys
            /\ mu = Unlocked
            /\ tasks = << >>
            /\ parked = << >>

NextDispatch == ServeHTTP(GET, P_root) \/ Dispatch

SpecDispatch == InitDispatch /\ [][NextDispatch]_vars

\* SpecDispatchLive: the same, and the goroutine that serves the request
\* keeps running: a step of the dispatch that can be taken is taken.  A
\* handler is a finite list of statements, so every invocation returns or
\* panics.
SpecDispatchLive == SpecDispatch /\ WF_vars(Dispatch)

(***************************************************************************)
(* Concurrent lookups.  Every request is served by a goroutine of its own, *)
(* and each calls findRoute; finders holds the local variables of these    *)
(* calls.  A step is the entry of the call, one iteration of its loop or   *)
(* its return.                                                             *)
(***************************************************************************)
\* findRoute, lines 84-92: the entry of a call by a new goroutine
FindStart(method, path) ==
    /\ serving
    /\ finders' = Append(finders,
          IF trees[method] = 0
          THEN [method |-> method, path |-> path, parts |-> << >>, i |-> 1,
                current |-> 0, params |-> << >>, alloc |-> FALSE,
                at |-> "returned", handlers |-> NilSlice]
          ELSE [method |-> method, path |-> path, parts |-> splitClean(path),
                i |-> 1, current |-> trees[method], params |-> << >>,
                alloc |-> FALSE, at |-> "loop", handlers |-> NilSlice])
    /\ UNCHANGED <<parked, listed, keys, mu, tasks, serving>>
    /\ UNCHANGED setupVars
    /\ UNCHANGED reqVars

\* the iteration as it would be were the bindings kept in one map that all
\* calls share
FindStepSharedParams(c) ==
    /\ finders[c].at = "loop"
    /\ finders[c].i <= Len(finders[c].parts)
    /\ LET f == finders[c]
           part == f.parts[f.i]
           n == nodes[f.current]
       IN  finders' =
             IF part \in DOMAIN n.children
             THEN [finders EXCEPT ![c].current = n.children[part],
                                  ![c].i = f.i + 1]
             ELSE IF n.paramNode # 0
             THEN [d \in 1..Len(finders) |->
                     IF d = c
                     THEN [f EXCEPT !.current = n.paramNode,
                                    !.params = (nodes[n.paramNode].segment
                                                    :> part) @@ f.params,
                                    !.alloc = TRUE,
                                    !.i = f.i + 1]
                     ELSE IF finders[d].at = "loop"
                     THEN [finders[d] EXCEPT
                             !.params = (nodes[n.paramNode].segment :> part)
                                            @@ finders[d].params,
                             !.alloc = TRUE]
                     ELSE finders[d]]
             ELSE [finders EXCEPT ![c].at = "returned",
                                  ![c].handlers = NilSlice,
                                  ![c].params = << >>,
                                  ![c].alloc = FALSE]
    /\ UNCHANGED <<parked, listed, keys, mu, tasks, serving>>
    /\ UNCHANGED setupVars
    /\ UNCHANGED reqVars

\* the iteration as it would be did it try the parameter child first
FindStepParamFirst(c) ==
    /\ finders[c].at = "loop"
    /\ finders[c].i <= Len(finders[c].parts)
    /\ LET f == finders[c]
           part == f.parts[f.i]
           n == nodes[f.current]
       IN  finders' =
             IF n.paramNode # 0
             THEN [finders EXCEPT
                     ![c].current = n.paramNode,
                     ![c].params = (nodes[n.paramNode].segment :> part)
                                       @@ f.params,
                     ![c].alloc = TRUE,
                     ![c].i = f.i + 1]
             ELSE IF part \in DOMAIN n.children
             THEN [finders EXCEPT ![c].current = n.children[part],
                                  ![c].i = f.i + 1]
             ELSE [finders EXCEPT ![c].at = "returned",
                                  ![c].handlers = NilSlice,
                                  ![c].params = << >>,
                                  ![c].alloc = FALSE]
    /\ UNCHANGED <<parked, listed, keys, mu, tasks, serving>>
    /\ UNCHANGED setupVars
    /\ UNCHANGED reqVars

\* findRoute, lines 94-117: one iteration of the loop of call c
FindStep(c) ==
    /\ finders[c].at = "loop"
    /\ finders[c].i <= Len(finders[c].parts)
    /\ LET f == finders[c]
           part == f.parts[f.i]
           n == nodes[f.current]
       IN  finders' =
             IF part \in DOMAIN n.children
             THEN [finders EXCEPT ![c].current = n.children[part],
                                  ![c].i = f.i + 1]
             ELSE IF n.paramNode # 0
             THEN [finders EXCEPT
                     ![c].current = n.paramNode,
                     ![c].params = (nodes[n.paramNode].segment :> part)
                                       @@ f.params,
                     ![c].alloc = TRUE,
                     ![c].i = f.i + 1]
             ELSE [finders EXCEPT ![c].at = "returned",
                                  ![c].handlers = NilSlice,
                                  ![c].params = << >>,
                                  ![c].alloc = FALSE]
    /\ UNCHANGED <<parked, listed, keys, mu, tasks, serving>>
    /\ UNCHANGED setupVars
    /\ UNCHANGED reqVars

\* findRoute, line 120: the loop is over, call c returns
FindReturn(c) ==
    /\ finders[c].at = "loop"
    /\ finders[c].i > Len(finders[c].parts)
    /\ finders' = [finders EXCEPT
                     ![c].at = "returned",
                     ![c].handlers = nodes[finders[c].current].handlers]
    /\ UNCHANGED <<parked, listed, keys, mu, tasks, serving>>
    /\ UNCHANGED setupVars
    /\ UNCHANGED reqVars

(***************************************************************************)
(* The key/value store of a Context.  The handlers of the chain and the    *)
(* goroutines they start call Set and Get on the Context of the request;   *)
(* tasks holds these calls, each with the line it is at.  Context.mu is a  *)
(* sync.RWMutex: Lock waits until no goroutine holds it, RLock until no    *)
(* writer holds it.  A call also keeps, as history, how many calls had     *)
(* returned when it started (since) and which return was its own (ret).    *)
(***************************************************************************)
NilValue == "nil"

Returned == {t \in 1..Len(tasks) : tasks[t].at = "returned"}

\* a goroutine calls c.Set(key, value): it is at line 73
SetCall(key, value) ==
    /\ outcome # "idle"
    /\ tasks' = Append(tasks, [op |-> "Set", key |-> key, value |-> value,
                               at |-> "Lock", got |-> <<NilValue, FALSE>>,
                               since |-> Cardinality(Returned), ret |-> 0])
    /\ UNCHANGED <<parked, listed, finders, keys, mu, serving>>
    /\ UNCHANGED setupVars
    /\ UNCHANGED reqVars

\* line 73 as it would be did Lock not wait for the holders of the lock
SetLockNoWait(t) ==
    /\ tasks[t].op = "Set" /\ tasks[t].at = "Lock"
    /\ mu' = [mu EXCEPT !.writer = TRUE]
    /\ tasks' = [tasks EXCEPT ![t].at = "check"]
    /\ UNCHANGED <<parked, listed, finders, keys, serving>>
    /\ UNCHANGED setupVars
    /\ UNCHANGED reqVars

\* Set, line 73: c.mu.Lock()
SetLock(t) ==
    /\ tasks[t].op = "Set" /\ tasks[t].at = "Lock"
    /\ ~mu.writer /\ mu.readers = 0
    /\ mu' = [mu EXCEPT !.writer = TRUE]
    /\ tasks' = [tasks EXCEPT ![t].at = "check"]
    /\ UNCHANGED <<parked, listed, finders, keys, serving>>
    /\ UNCHANGED setupVars
    /\ UNCHANGED reqVars

\* Set, lines 75-77: the map is made when it is nil
SetMake(t) ==
    /\ tasks[t].op = "Set" /\ tasks[t].at = "check"
    /\ keys' = IF keys.alloc THEN keys ELSE [alloc |-> TRUE, map |-> << >>]
    /\ tasks' = [tasks EXCEPT ![t].at = "store"]
    /\ UNCHANGED <<parked, listed, finders, mu, serving>>
    /\ UNCHANGED setupVars
    /\ UNCHANGED reqVars

\* Set, line 78: c.Keys[key] = value
SetStore(t) ==
    /\ tasks[t].op = "Set" /\ tasks[t].at = "store"
    /\ keys' = [keys EXCEPT !.map = (tasks[t].key :> tasks[t].value) @@ @]
    /\ tasks' = [tasks EXCEPT ![t].at = "Unlock"]
    /\ UNCHANGED <<parked, listed, finders, mu, serving>>
    /\ UNCHANGED setupVars
    /\ UNCHANGED reqVars

\* Set, line 74: the deferred c.mu.Unlock(), and the return
SetUnlock(t) ==
    /\ tasks[t].op = "Set" /\ tasks[t].at = "Unlock"
    /\ mu' = [mu EXCEPT !.writer = FALSE]
    /\ tasks' = [tasks EXCEPT ![t].at = "returned",
                              ![t].ret = Cardinality(Returned) + 1]
    /\ UNCHANGED <<parked, listed, finders, keys, serving>>
    /\ UNCHANGED setupVars
    /\ UNCHANGED reqVars

\* a goroutine calls c.Get(key): it is at line 83
GetCall(key) ==
    /\ outcome # "idle"
    /\ tasks' = Append(tasks, [op |-> "Get", key |-> key, value |-> NilValue,
                               at |-> "RLock", got |-> <<NilValue, FALSE>>,
                               since |-> Cardinality(Returned), ret |-> 0])
    /\ UNCHANGED <<parked, listed, finders, keys, mu, serving>>
    /\ UNCHANGED setupVars
    /\ UNCHANGED reqVars

\* Get, line 83: c.mu.RLock()
GetRLock(t) ==
    /\ tasks[t].op = "Get" /\ tasks[t].at = "RLock"
    /\ ~mu.writer
    /\ mu' = [mu EXCEPT !.readers = @ + 1]
    /\ tasks' = [tasks EXCEPT ![t].at = "read"]
    /\ UNCHANGED <<parked, listed, finders, keys, serving>>
    /\ UNCHANGED setupVars
    /\ UNCHANGED reqVars

\* Get, line 85: value, exists = c.Keys[key]; reading a nil map gives the
\* zero value and false
GetRead(t) ==
    /\ tasks[t].op = "Get" /\ tasks[t].at = "read"
    /\ tasks' = [tasks EXCEPT
                    ![t].got = IF tasks[t].key \in DOMAIN keys.map
                               THEN <<keys.map[tasks[t].key], TRUE>>
                               ELSE <<NilValue, FALSE>>,
                    ![t].at = "RUnlock"]
    /\ UNCHANGED <<parked, listed, finders, keys, mu, serving>>
    /\ UNCHANGED setupVars
    /\ UNCHANGED reqVars

\* Get, line 84: the deferred c.mu.RUnlock(), and the return
GetRUnlock(t) ==
    /\ tasks[t].op = "Get" /\ tasks[t].at = "RUnlock"
    /\ mu' = [mu EXCEPT !.readers = @ - 1]
    /\ tasks' = [tasks EXCEPT ![t].at = "returned",
                              ![t].ret = Cardinality(Returned) + 1]
    /\ UNCHANGED <<parked, listed, finders, keys, serving>>
    /\ UNCHANGED setupVars
    /\ UNCHANGED reqVars

(***************************************************************************)
(* Requests served side by side.  The server started in RunAndListen runs  *)
(* ServeHTTP for every request on a goroutine of its own.  The variables   *)
(* resp ... mu are the locals of the goroutine that runs now (its w, its   *)
(* Context c and what c points to); parked holds the same for the others.  *)
(* The engine, its trees and the arrays of the chains are shared by all.   *)
(***************************************************************************)
Locals ==
    [resp |-> resp, ctx |-> ctx, stack |-> stack, trace |-> trace,
     panicking |-> panicking, outcome |-> outcome, lookup |-> lookup,
     keys |-> keys, mu |-> mu]

\* a goroutine that has not been given its request yet
IdleLocals ==
    [resp |-> NoResp, ctx |-> NoCtx, stack |-> << >>, trace |-> << >>,
     panicking |-> FALSE, outcome |-> "idle", lookup |-> NoLookup,
     keys |-> NoKeys, mu |-> Unlocked]

\* the switch between goroutines as it would be did ServeHTTP run all
\* requests on one Context, kept by the engine
YieldSharedContext(k) ==
    /\ serving
    /\ k \in 1..Len(parked)
    /\ resp' = parked[k].resp
    /\ stack' = parked[k].stack
    /\ trace' = parked[k].trace
    /\ panicking' = parked[k].panicking
    /\ outcome' = parked[k].outcome
    /\ lookup' = parked[k].lookup
    /\ parked' = [parked EXCEPT ![k] = Locals]
    /\ UNCHANGED <<ctx, keys, mu, log, serving, listed, finders, tasks>>
    /\ UNCHANGED setupVars

\* the goroutine that runs is suspended and goroutine k of the others
\* runs: each goes on with its own w and its own c (glaze.go:87, c is a
\* local variable of ServeHTTP that points to a Context made by that call)
Yield(k) ==
    /\ serving
    /\ k \in 1..Len(parked)
    /\ resp' = parked[k].resp
    /\ ctx' = parked[k].ctx
    /\ stack' = parked[k].stack
    /\ trace' = parked[k].trace
    /\ panicking' = parked[k].panicking
    /\ outcome' = parked[k].outcome
    /\ lookup' = parked[k].lookup
    /\ keys' = parked[k].keys
    /\ mu' = parked[k].mu
    /\ parked' = [parked EXCEPT ![k] = Locals]
    /\ UNCHANGED <<log, serving, listed, finders, tasks>>
    /\ UNCHANGED setupVars

(***************************************************************************)
(* SpecRoutes: routes are registered on the engine and the program asks    *)
(* for the list of routes, in any order.                                   *)
(***************************************************************************)
NextRoutes == Register \/ RoutesInfo

SpecRoutes == Init /\ [][NextRoutes]_vars

(***************************************************************************)
(* SpecLookup: the tree is fully built and the server runs; up to          *)
(* MaxFinders goroutines call findRoute, their steps interleaved in any    *)
(* order.                                                                  *)
(***************************************************************************)
\* the engine after the calls of handle in rs were made on engine e, each
\* on the Route embedded in the engine
RECURSIVE Built(_, _)
Built(e, rs) ==
    IF rs = << >> THEN e
    ELSE LET in == Head(rs)
             absolutePath == joinPath(EmptyStr, in[2])
             j == joinHandler(e.arrays, NilSlice, in[3])
             r == addRoute(e.nodes, e.trees, e.routeList, in[1],
                           absolutePath, j.slice)
         IN  Built([arrays |-> j.arrays, nodes |-> r.nodes,
                    trees |-> r.trees, routeList |-> r.routeList,
                    registered |->
                       IF r.err = "ok"
                       THEN Append(e.registered,
                              [method |-> in[1], path |-> absolutePath,
                               node |-> r.node, slice |-> j.slice,
                               chain |-> in[3]])
                       ELSE e.registered],
                   Tail(rs))

NewEngine == [arrays |-> << >>, nodes |-> << >>, trees |-> [m \in Methods |-> 0],
              routeList |-> << >>, registered |-> << >>]

\* the routes of the engines on which the lookups are made
LookupRoutes ==
    { << <<GET, P_ax, <<"hA">> >>, <<GET, P_ayb, <<"hB">> >> >>,
      << <<GET, P_ab, <<"hA">> >>, <<GET, P_ax, <<"hB">> >> >>,
      << <<GET, P_ab, <<"hA">> >>, <<GET, P_ayb, <<"hB">> >>,
         <<POST, P_ab, <<"hB">> >> >>,
      << <<GET, P_root, <<"hA">> >> >> }

LookupRequests ==
    ({GET} \X {P_root, P_ab, P_av, P_avb, P_avc}) \cup ({POST} \X {P_ab})

InitLookup ==
    \E rs \in LookupRoutes :
        LET e == Built(NewEngine, rs) IN
        /\ arrays = e.arrays
        /\ groups = <<[Path |-> EmptyStr, Handler |-> NilSlice]>>
        /\ nodes = e.nodes
        /\ trees = e.trees
        /\ routeList = e.routeList
        /\ serving = TRUE
        /\ lastCall = [op |-> "handle", group |-> 1,
                       method |-> rs[Len(rs)][1],
                       path |-> rs[Len(rs)][2], err |-> "ok"]
        /\ registered = e.registered
        /\ groupMw = << << >> >>
        /\ resp = NoResp
        /\ ctx = NoCtx
        /\ stack = << >>
        /\ trace = << >>
        /\ panicking = FALSE
        /\ outcome = "idle"
        /\ log = << >>
        /\ lookup = NoLookup
        /\ calls = Len(rs)
        /\ listed = << >>
        /\ finders = << >>
        /\ keys = NoKeys
        /\ mu = Unlocked
        /\ tasks = << >>
        /\ parked = << >>

Find ==
    /\ Len(finders) < MaxFinders
    /\ \E rq \in LookupRequests : FindStart(rq[1], rq[2])

Step == \E c \in 1..Len(finders) : FindStep(c)

Return == \E c \in 1..Len(finders) : FindReturn(c)

NextLookup == Find \/ Step \/ Return

SpecLookup == InitLookup /\ [][NextLookup]_vars

(***************************************************************************)
(* SpecStore: the engine has the route GET / with a chain of one handler   *)
(* and serves a request for it; while and after the chain runs, up to      *)
(* MaxTasks calls of Set and Get are made on the Context of the request,   *)
(* their steps interleaved with the steps of the chain in any order.       *)
(***************************************************************************)
StoreKeys == {"k1", "k2"}

StoreValues == {"v1", "v2"}

InitStore ==
    LET e == Built(NewEngine, << <<GET, P_root, <<"hA">> >> >>) IN
    /\ arrays = e.arrays
    /\ groups = <<[Path |-> EmptyStr, Handler |-> NilSlice]>>
    /\ nodes = e.nodes
    /\ trees = e.trees
    /\ routeList = e.routeList
    /\ serving = TRUE
    /\ lastCall = [op |-> "handle", group |-> 1, method |-> GET,
                   path |-> P_root, err |-> "ok"]
    /\ registered = e.registered
    /\ groupMw = << << >> >>
    /\ resp = NoResp
    /\ ctx = NoCtx
    /\ stack = << >>
    /\ trace = << >>
    /\ panicking = FALSE
    /\ outcome = "idle"
    /\ log = << >>
    /\ lookup = NoLookup
    /\ calls = 1
    /\ listed = << >>
    /\ finders = << >>
    /\ keys = NoKeys
    /\ mu = Unlocked
    /\ tasks = << >>
    /\ parked = << >>

Request == outcome = "idle" /\ ServeHTTP(GET, P_root)

CallSet ==
    /\ Len(tasks) < MaxTasks
    /\ \E v \in StoreValues : SetCall("k1", v)

CallGet ==
    /\ Len(tasks) < MaxTasks
    /\ \E k \in StoreKeys : GetCall(k)

InSet ==
    \E t \in 1..Len(tasks) :
        SetLock(t) \/ SetMake(t) \/ SetStore(t) \/ SetUnlock(t)

InGet ==
    \E t \in 1..Len(tasks) : GetRLock(t) \/ GetRead(t) \/ GetRUnlock(t)

NextStore == Request \/ Plain \/ CallSet \/ CallGet \/ InSet \/ InGet

SpecStore == InitStore /\ [][NextStore]_vars

(***************************************************************************)
(* SpecRequests: the engine has the routes GET /a/:x, whose chain aborts,  *)
(* and POST /a/:x, whose chain runs through; MaxConns goroutines serve one *)
(* request each, their steps interleaved in any order.                     *)
(***************************************************************************)
ConnRoutes ==
    << <<GET, P_ax, <<"keep", "gate", "hA">> >>,
       <<POST, P_ax, <<"keep", "hB", "hA">> >> >>

ConnRequests == {<<GET, P_av>>, <<POST, P_av>>, <<POST, P_ac>>}

InitRequests ==
    LET e == Built(NewEngine, ConnRoutes) IN
    /\ arrays = e.arrays
    /\ groups = <<[Path |-> EmptyStr, Handler |-> NilSlice]>>
    /\ nodes = e.nodes
    /\ trees = e.trees
    /\ routeList = e.routeList
    /\ serving = TRUE
    /\ lastCall = [op |-> "handle", group |-> 1, method |-> POST,
                   path |-> P_ax, err |-> "ok"]
    /\ registered = e.registered
    /\ groupMw = << << >> >>
    /\ resp = NoResp
    /\ ctx = NoCtx
    /\ stack = << >>
    /\ trace = << >>
    /\ panicking = FALSE
    /\ outcome = "idle"
    /\ log = << >>
    /\ lookup = NoLookup
    /\ calls = Len(ConnRoutes)
    /\ listed = << >>
    /\ finders = << >>
    /\ keys = NoKeys
    /\ mu = Unlocked
    /\ tasks = << >>
    /\ parked = [i \in 1..(MaxConns - 1) |-> IdleLocals]

Arrive == outcome = "idle" /\ \E rq \in ConnRequests : ServeHTTP(rq[1], rq[2])

Switch == \E k \in 1..Len(parked) : Yield(k)

NextRequests == Arrive \/ Plain \/ NextStopped \/ Switch

SpecRequests == InitRequests /\ [][NextRequests]_vars

(***************************************************************************)
(* SpecJoin: a group is made on the engine and a group is made in that     *)
(* group, each with any path of at most MaxLen characters, so that         *)
(* joinPath is applied to the prefixes a group can have.                   *)
(***************************************************************************)
PathChars == {Slash, "a", "."}

JoinInputs == SeqsUpTo(PathChars, MaxLen)

MakeGroup ==
    /\ Len(groups) = 1
    /\ \E relativePath \in JoinInputs : Group(1, relativePath, << >>)

MakeSubgroup ==
    /\ Len(groups) = 2
    /\ \E relativePath \in JoinInputs : Group(2, relativePath, << >>)

NextJoin == MakeGroup \/ MakeSubgroup

SpecJoin == Init /\ [][NextJoin]_vars

(***************************************************************************)
(* SpecMethods: handle is called on the engine with method strings of      *)
(* every shape, those that are not upper-case words among them.            *)
(***************************************************************************)
MethodInputs == Methods \X {P_ab, P_ax} \X {<<"hA">>}

Attempt ==
    /\ calls < MaxRoutes
    /\ \E in \in MethodInputs : Handle(1, in[1], in[2], in[3])

NextMethods == Attempt

SpecMethods == Init /\ [][NextMethods]_vars

(***************************************************************************)
(* Vocabulary of the properties.                                           *)
(***************************************************************************)
\* the parameter segments of a path, by position
ParamPositions(path) ==
    {k \in 1..Len(splitClean(path)) : HasPrefixColon(splitClean(path)[k])}

\* a request path matches a route path segment by segment
Matches(routePath, reqPath) ==
    LET rs == splitClean(routePath)
        qs == splitClean(reqPath)
    IN  /\ Len(rs) = Len(qs)
        /\ \A k \in 1..Len(rs) : HasPrefixColon(rs[k]) \/ rs[k] = qs[k]

\* the node reached from node n along the existing edges for parts[i..],
\* a parameter segment following the parameter edge; 0 when an edge lacks
RECURSIVE Reach(_, _, _, _)
Reach(ns, n, parts, i) ==
    IF n = 0 \/ i > Len(parts) THEN n
    ELSE IF HasPrefixColon(parts[i])
    THEN Reach(ns, ns[n].paramNode, parts, i + 1)
    ELSE IF parts[i] \in DOMAIN ns[n].children
    THEN Reach(ns, ns[n].children[parts[i]], parts, i + 1)
    ELSE 0

\* registering path for method would meet, at an existing node that has a
\* parameter child, a literal segment
LiteralMeetsParam(ns, ts, method, path) ==
    /\ ts[method] # 0
    /\ \E k \in 1..Len(splitClean(path)) :
         LET at == Reach(ns, ts[method], SubSeq(splitClean(path), 1, k - 1), 1)
         IN  /\ at # 0
             /\ ~HasPrefixColon(splitClean(path)[k])
             /\ ns[at].paramNode # 0

\* a step that is a call of handle which got past the method check
IsRegistration(c, c2, call) ==
    c2 = c + 1 /\ call.op = "handle" /\ call.err # "invalid_method"

\* the chains the nodes carry, by node
ChainOf(ns, arrs, n) == <<ns[n].handlers, SliceSeq(arrs, ns[n].handlers)>>

(***************************************************************************)
(* C1.  For every registration that succeeded, findRoute called with the   *)
(* method and the very path string of that registration returns the chain  *)
(* stored by it (the same slice, with the handlers it was given), never    *)
(* nil; and it returns the nil bindings when the path has no parameter     *)
(* segment.                                                                *)
(***************************************************************************)
C1_RegisteredResolves ==
    \A i \in 1..Len(registered) :
        LET r == registered[i]
            f == findRoute(nodes, trees, r.method, r.path)
        IN  /\ f.handlers.arr # 0
            /\ f.handlers = r.slice
            /\ SliceSeq(arrays, f.handlers) = r.chain
            /\ \A j \in 1..Len(registered) :
                 j # i => f.handlers.arr # registered[j].slice.arr
            /\ ParamPositions(r.path) = {} => f.params = << >> /\ ~f.alloc

\* two routes are registered, one with a parameter and one without at the
\* same place, and the request for the literal one has been resolved to it
C1_Witness ==
    /\ Len(registered) = 2
    /\ registered[1].path = P_ab /\ registered[2].path = P_ax
    /\ lookup.method = GET /\ lookup.path = P_ab
    /\ lookup.handlers = registered[1].slice
    /\ outcome = "done"

(***************************************************************************)
(* C2.  Whenever findRoute returns the chain of a registered route, the    *)
(* bindings map every parameter name written in that route's path to the   *)
(* request segment at the same position.                                   *)
(***************************************************************************)
C2_BindsOwnNames ==
    \A i \in 1..Len(registered) :
        LET r == registered[i] IN
        (lookup.handlers.arr # 0 /\ lookup.handlers = r.slice) =>
            \A k \in ParamPositions(r.path) :
                LET name == Tail(splitClean(r.path)[k]) IN
                /\ name \in DOMAIN lookup.params
                /\ lookup.params[name] = splitClean(lookup.path)[k]

(***************************************************************************)
(* C3.  A call of handle whose path meets, at a node that already has a    *)
(* parameter child, a literal segment ends with the static-versus-param    *)
(* conflict panic and registers nothing: no entry is added to the route    *)
(* list and no node is given or loses a chain.                             *)
(***************************************************************************)
C3_LiteralAfterParamConflicts ==
    [][ (/\ IsRegistration(calls, calls', lastCall')
         /\ LiteralMeetsParam(nodes, trees, lastCall'.method, lastCall'.path))
        => /\ lastCall'.err = "conflict_static"
           /\ routeList' = routeList
           /\ registered' = registered
           /\ \A n \in 1..Len(nodes') :
                IF n <= Len(nodes)
                THEN ChainOf(nodes', arrays', n) = ChainOf(nodes, arrays, n)
                ELSE nodes'[n].handlers = NilSlice ]_vars

\* /a/:x is registered and the registration of /a/b has panicked
C3_Witness ==
    /\ Len(registered) = 1 /\ registered[1].path = P_ax
    /\ lastCall.op = "handle" /\ lastCall.path = P_ab /\ lastCall.method = GET
    /\ lastCall.err = "conflict_static"
    /\ Len(routeList) = 1

(***************************************************************************)
(* C4.  No node has both a parameter child and a literal child.            *)
(***************************************************************************)
C4_NoMixedChildren ==
    \A n \in 1..Len(nodes) :
        ~(nodes[n].paramNode # 0 /\ DOMAIN nodes[n].children # {})

(***************************************************************************)
(* C5.  A chain, once assigned to a node, stays: no step changes the slice *)
(* a node carries or the handlers in it; and a call of handle for a method *)
(* and path string that were registered before ends with the duplicate     *)
(* panic and adds nothing to the route list, also when the chain           *)
(* registered first is the empty one.                                      *)
(***************************************************************************)
C5_ChainAssignedOnce ==
    [][ /\ \A n \in 1..Len(nodes) :
             nodes[n].handlers.arr # 0 =>
                 /\ n <= Len(nodes')
                 /\ ChainOf(nodes', arrays', n) = ChainOf(nodes, arrays, n)
        /\ (/\ IsRegistration(calls, calls', lastCall')
            /\ \E i \in 1..Len(registered) :
                 /\ registered[i].method = lastCall'.method
                 /\ registered[i].path = lastCall'.path)
           => /\ lastCall'.err = "duplicate"
              /\ routeList' = routeList
              /\ registered' = registered ]_vars

(***************************************************************************)
(* C6.  As claimed: a request that findRoute does not resolve gets 404,    *)
(* starts no handler, and findRoute returned nil handlers and no bindings. *)
(***************************************************************************)
C6_NotFoundNoBindings ==
    outcome = "notfound" =>
        /\ lookup.handlers = NilSlice
        /\ lookup.params = << >> /\ ~lookup.alloc
        /\ trace = << >> /\ stack = << >>
        /\ resp.status = 404

(***************************************************************************)
(* C6, amended.  A request that matches no registered route of its method  *)
(* is not found; for a request that is not found findRoute returned nil    *)
(* handlers, ServeHTTP creates no Context, starts no handler and answers   *)
(* 404; the bindings returned are nil when the method has no tree or a     *)
(* segment has no child to follow, while a walk that ends on a node        *)
(* without a chain returns the bindings made on the way.                   *)
(***************************************************************************)
NoRouteMatches(method, path) ==
    \A i \in 1..Len(registered) :
        ~(registered[i].method = method /\ Matches(registered[i].path, path))

C6_NotFound ==
    /\ (outcome # "idle" /\ NoRouteMatches(lookup.method, lookup.path))
         => outcome = "notfound"
    /\ outcome = "notfound" =>
         /\ lookup.handlers = NilSlice
         /\ trace = << >> /\ stack = << >> /\ ctx = NoCtx
         /\ resp = [status |-> 404, body |-> <<"404 page not found">>]
         /\ lookup.node = 0 => lookup.params = << >> /\ ~lookup.alloc
         /\ lookup.node # 0 => nodes[lookup.node].handlers = NilSlice

\* the walk for GET /a/v has ended on the parameter node of /a/:y/b, which
\* has no chain: 404, with y bound
C6_Witness ==
    /\ outcome = "notfound"
    /\ lookup.path = P_av /\ lookup.node # 0
    /\ lookup.alloc /\ lookup.params = (<<"y">> :> <<"v">>)
    /\ resp.status = 404

(***************************************************************************)
(* Vocabulary of the dispatch properties.                                  *)
(***************************************************************************)
\* the places of the trace where op was done
Places(op) == {j \in 1..Len(trace) : trace[j][1] = op}

\* the place of the first call of Abort, when there is one
FirstAbort == CHOOSE a \in Places("abort") : \A b \in Places("abort") : a <= b

\* the chain positions that wrote to the response
Writers == Did("write") \cup Did("recover")

\* once Abort has been called no handler is started in that request
NoStartAfterAbort ==
    [][ (stack # << >> /\ Places("abort") # {}) => Invoked' = Invoked ]_vars

\* a handler that called Abort has returned from its body when the
\* request ends without a panic
AborterFinishes ==
    (outcome = "done" /\ Places("panic") = {}) => Did("abort") \subseteq Did("return")

(***************************************************************************)
(* C7.  As claimed: once a handler has called Abort no handler is started  *)
(* any more, the handler that called Abort runs its body to the end, and   *)
(* only chain positions up to and including the first one that called      *)
(* Abort have written to the response.                                     *)
(***************************************************************************)
C7_AbortSkipsLater ==
    /\ NoStartAfterAbort
    /\ []AborterFinishes
    /\ [](Places("abort") # {} =>
            \A w \in Writers : w <= trace[FirstAbort][2])

(***************************************************************************)
(* C7, amended.  Once a handler has called Abort no handler is started any *)
(* more, the handler that called Abort runs its body to the end, and only  *)
(* chain positions up to and including the first one that called Abort     *)
(* have written to the response, unless that handler had itself called     *)
(* Next before it called Abort: the handlers run by that call have written *)
(* already.                                                                *)
(***************************************************************************)
C7_AbortStopsChain ==
    /\ NoStartAfterAbort
    /\ []AborterFinishes
    /\ [](Places("abort") # {} =>
            LET by == trace[FirstAbort][2] IN
            \/ \A w \in Writers : w <= by
            \/ \E k \in Places("next") : k < FirstAbort /\ trace[k][2] = by)

\* the first of three handlers has called Abort and then written, the
\* request is over and the other two were never started
C7_Witness ==
    /\ registered[1].chain = <<"gate", "hA", "hB">>
    /\ outcome = "done"
    /\ Invoked = <<0>>
    /\ Did("abort") = {0} /\ Did("return") = {0}
    /\ resp.body = <<"gate">>

(***************************************************************************)
(* C8.  When the request is over and no handler has called Abort or        *)
(* panicked, the one call of Next made by ServeHTTP has started the        *)
(* handlers of positions 0, 1, ..., n-1, each once and in this order.      *)
(***************************************************************************)
C8_AllOnceInOrder ==
    (outcome = "done" /\ Places("abort") = {} /\ Places("panic") = {}) =>
        /\ Invoked = [k \in 1..ctx.handlers.len |-> k - 1]
        /\ Did("return") = {k - 1 : k \in 1..ctx.handlers.len}

\* three handlers none of which calls Next have all run, in order
C8_Witness ==
    /\ registered[1].chain = <<"hA", "hB", "hA">>
    /\ outcome = "done"
    /\ Places("next") = {}
    /\ Invoked = <<0, 1, 2>>
    /\ resp.body = <<"hA", "hB", "hA">>

(***************************************************************************)
(* C9.  Whatever the handlers do, the positions started in a request are   *)
(* strictly increasing (so none is started twice), and the cursor of the   *)
(* Context never decreases while the request is served.                    *)
(***************************************************************************)
C9_AtMostOnceInOrder ==
    /\ [](\A i, j \in 1..Len(Invoked) : i < j => Invoked[i] < Invoked[j])
    /\ [][ stack # << >> => ctx'.index >= ctx.index ]_vars

\* Recovery, a handler that calls Next twice and one that calls Next and
\* then Abort have run
C9_Witness ==
    /\ registered[1].chain = <<"Recovery", "twice", "late">>
    /\ outcome = "done"
    /\ Invoked = <<0, 1, 2>>
    /\ Did("abort") = {2}
    /\ ctx.index > 2

(***************************************************************************)
(* C10.  The chain a route carries is the middleware its group had when    *)
(* the route was registered followed by the handlers given, and the        *)
(* middleware of a group is what it inherited when created followed by     *)
(* what its own Use calls added; no later call changes either.             *)
(***************************************************************************)
C10_ChainsImmutable ==
    /\ \A i \in 1..Len(registered) :
         LET r == registered[i] IN
         /\ nodes[r.node].handlers = r.slice
         /\ SliceSeq(arrays, nodes[r.node].handlers) = r.chain
    /\ \A g \in 1..Len(groups) :
         SliceSeq(arrays, groups[g].Handler) = groupMw[g]

\* a route was registered on a sub-group that had inherited middleware,
\* and Use was called on that group afterwards
C10_Witness ==
    /\ Len(groups) = 2
    /\ Len(registered) = 1
    /\ registered[1].chain = <<"Recovery", "hA">>
    /\ lastCall.op = "Use" /\ lastCall.group = 2
    /\ groupMw[2] = <<"Recovery", "wrap", "gate">>

(***************************************************************************)
(* Vocabulary of the path properties.                                      *)
(***************************************************************************)
\* the maximal runs of characters other than '/' in p, in order; cur is
\* the run being read
RECURSIVE Runs(_, _)
Runs(p, cur) ==
    LET done == IF cur = EmptyStr THEN << >> ELSE <<cur>> IN
    IF p = EmptyStr THEN done
    ELSE IF Head(p) = Slash THEN done \o Runs(Tail(p), EmptyStr)
    ELSE Runs(Tail(p), Append(cur, Head(p)))

Segments(p) == Runs(p, EmptyStr)

\* the path strings given to registrations and requests
PathsTried == {in[2] : in \in RouteInputs} \cup {rq[2] : rq \in Requests}

\* what findRoute returns for q is what it returned for the request served
SameAsLookup(q) ==
    LET f == findRoute(nodes, trees, lookup.method, q) IN
    /\ f.handlers = lookup.handlers
    /\ f.params = lookup.params /\ f.alloc = lookup.alloc
    /\ f.node = lookup.node

\* paths with the segments of the path served resolve as it did, and paths
\* with the segments of a registered path resolve to that route's chain
SameSegmentsSameResult ==
    /\ outcome # "idle" =>
         \A q \in PathsTried :
            Segments(q) = Segments(lookup.path) => SameAsLookup(q)
    /\ \A i \in 1..Len(registered), q \in PathsTried :
         Segments(q) = Segments(registered[i].path) =>
            findRoute(nodes, trees, registered[i].method, q).handlers
                = registered[i].slice

\* a path without segments addresses the root of the method's tree
EmptyPathIsRoot ==
    /\ \A i \in 1..Len(registered) :
         Segments(registered[i].path) = << >> =>
            registered[i].node = trees[registered[i].method]
    /\ (outcome # "idle" /\ Segments(lookup.path) = << >>
            /\ trees[lookup.method] # 0) =>
         /\ lookup.node = trees[lookup.method]
         /\ lookup.params = << >> /\ ~lookup.alloc

\* registering a path with the segments of a path registered before for
\* the method ends with the duplicate panic and registers nothing
SameSegmentsDuplicate ==
    (/\ IsRegistration(calls, calls', lastCall')
     /\ \E i \in 1..Len(registered) :
          /\ registered[i].method = lastCall'.method
          /\ Segments(registered[i].path) = Segments(lastCall'.path))
    => /\ lastCall'.err = "duplicate"
       /\ routeList' = routeList
       /\ nodes' = nodes /\ trees' = trees

(***************************************************************************)
(* C11.  Leading and trailing slashes are ignored and consecutive slashes  *)
(* collapse, for registration and for resolution alike: two paths with the *)
(* same non-empty segments resolve to the same result, registering the     *)
(* second of them for one method ends with the duplicate panic, and a path *)
(* that is empty or all slashes addresses the root of the tree.            *)
(***************************************************************************)
C11_SplitIdentically ==
    /\ []SameSegmentsSameResult
    /\ []EmptyPathIsRoot
    /\ [][SameSegmentsDuplicate]_vars

(***************************************************************************)
(* Vocabulary of the panic properties.                                     *)
(***************************************************************************)
\* the chain being dispatched
Chain == SliceSeq(arrays, ctx.handlers)

\* Recovery stands in the chain before position p
RecoveryBefore(p) == \E r \in 0..(p - 1) : Chain[r + 1] = "Recovery"

\* the request is over: ServeHTTP has returned or a panic has left it
Over == outcome \in {"done", "panic"}

(***************************************************************************)
(* C12.  A panic of a handler that stands after Recovery in the chain does *)
(* not leave ServeHTTP: it is recovered, the chain is marked stopped and   *)
(* the request ends normally; a panic of a handler with no Recovery before *)
(* it leaves ServeHTTP.  In both cases no handler is started after one has *)
(* panicked.                                                               *)
(***************************************************************************)
C12_RecoveryContainsPanic ==
    /\ [](\A p \in Did("panic") :
            IF RecoveryBefore(p)
            THEN /\ outcome # "panic"
                 /\ ~panicking => (ctx.stopped /\ Did("recover") # {})
                 /\ stack = << >> => outcome = "done"
            ELSE /\ Did("recover") = {}
                 /\ stack = << >> => outcome = "panic")
    /\ [][ (stack # << >> /\ Places("panic") # {}) => Invoked' = Invoked ]_vars

\* the second of three handlers has panicked behind Recovery: the request
\* is over, the chain is stopped and the third handler was never started
C12_Witness ==
    /\ Chain = <<"Recovery", "boom", "hA">>
    /\ outcome = "done"
    /\ Did("panic") = {1} /\ Did("recover") = {0}
    /\ ctx.stopped
    /\ Invoked = <<0, 1>>

(***************************************************************************)
(* C13.  A request in which a handler standing after Recovery has panicked *)
(* ends with the response 500 "Internal Server Error" and nothing else,    *)
(* whatever the handlers wrote before the panic, and the panic is reported *)
(* on the engine's writer.                                                 *)
(***************************************************************************)
C13_GenericErrorResponse ==
    (Over /\ \E p \in Did("panic") : RecoveryBefore(p)) =>
        /\ resp = [status |-> 500, body |-> <<"Internal Server Error">>]
        /\ log = <<"[PANIC]">>

(***************************************************************************)
(* Vocabulary of the listing properties.                                   *)
(***************************************************************************)
\* the route list as it was when the slice in listed was made: entries
\* are only ever appended to it
ListedFrom == SubSeq(routeList, 1, Len(listed))

\* the place of entry e in s
Pos(s, e) == CHOOSE k \in 1..Len(s) : s[k] = e

\* s holds the entries of rl by descending length of path and, among
\* equal lengths, by ascending path
SortedCopy(s, rl) ==
    /\ s \in Rearranged(rl)
    /\ \A i, j \in 1..Len(s) : i < j =>
          \/ Len(s[i].Path) > Len(s[j].Path)
          \/ Len(s[i].Path) = Len(s[j].Path) /\ ~StrLess(s[j].Path, s[i].Path)

\* entries of rl that have the same path are in s in the order of rl
Stable(s, rl) ==
    \A i, j \in 1..Len(rl) :
        (i < j /\ rl[i].Path = rl[j].Path) => Pos(s, rl[i]) < Pos(s, rl[j])

\* the route list holds the successful registrations in their order
RegistryInOrder ==
    routeList = [i \in 1..Len(registered) |->
                    [Method |-> registered[i].method,
                     Path |-> registered[i].path]]

(***************************************************************************)
(* C14.  RoutesInfo returns the entries of the route list by descending    *)
(* length of path and, among equal lengths, by ascending path; entries     *)
(* with the same path (under different methods) keep the order of their    *)
(* registration, so the order returned is fully determined; and the route  *)
(* list itself stays in the order of registration.                         *)
(***************************************************************************)
C14_SortedStableCopy ==
    /\ SortedCopy(listed, ListedFrom)
    /\ Stable(listed, ListedFrom)
    /\ RegistryInOrder

(***************************************************************************)
(* C15.  A call of findRoute changes nothing of the engine, and whatever   *)
(* the interleaving with other calls it returns the chain and the bindings *)
(* that findRoute gives for its method and path on that tree when run      *)
(* alone; the values it binds are segments of its own path.                *)
(***************************************************************************)
C15_LookupsIndependent ==
    /\ [](\A c \in 1..Len(finders) :
            LET f == finders[c]
                alone == findRoute(nodes, trees, f.method, f.path)
            IN  /\ f.at = "returned" =>
                     /\ f.handlers = alone.handlers
                     /\ f.params = alone.params
                     /\ f.alloc = alone.alloc
                /\ \A name \in DOMAIN f.params :
                     \E k \in 1..Len(f.parts) : f.params[name] = f.parts[k])
    /\ [][ /\ nodes' = nodes /\ trees' = trees /\ routeList' = routeList
           /\ arrays' = arrays
           /\ \A c \in 1..Len(finders) :
                /\ finders[c].at = "returned" => finders'[c] = finders[c]
                /\ finders'[c] # finders[c] =>
                     \A d \in 1..Len(finders) :
                        d # c => finders'[d] = finders[d] ]_vars

\* while the call for /a/v/b had bound x to v and was still in its loop,
\* the call for /a/b/ started, bound x to b and returned
C15_Witness ==
    /\ Len(finders) = 2
    /\ finders[1].path = P_avb /\ finders[1].at = "loop" /\ finders[1].i = 3
    /\ finders[1].params = (<<"x">> :> <<"v">>)
    /\ finders[2].path = P_ab /\ finders[2].at = "returned"
    /\ finders[2].params = (<<"x">> :> <<"b">>)
    /\ finders[2].handlers = registered[1].slice

(***************************************************************************)
(* Vocabulary of the store properties.                                     *)
(***************************************************************************)
\* call t is between its lock and its unlock
InCritical(t) ==
    IF tasks[t].op = "Set" THEN tasks[t].at \in {"check", "store", "Unlock"}
    ELSE tasks[t].at \in {"read", "RUnlock"}

\* the calls of Set for key
SetsOf(key) ==
    {t \in 1..Len(tasks) : tasks[t].op = "Set" /\ tasks[t].key = key}

\* of the calls in S, all returned, the one that returned last
LastOf(S) == CHOOSE t \in S : \A u \in S : tasks[u].ret <= tasks[t].ret

\* the step is one of a call of Set or Get
StoreStep == tasks' # tasks /\ tasks # << >> /\ tasks' # << >>

(***************************************************************************)
(* C16.  While a call of Set is between its Lock and its Unlock no other   *)
(* call of Set or Get is between its own; a Get that started after the     *)
(* calls of Set for its key had all returned returns the value of the last *)
(* of them and true; a Get of a key that was never set returns nil and     *)
(* false; no step of a Get changes the store, which is nil until a Set has *)
(* made it; and no step of Set or Get changes the Context's cursor or its  *)
(* stopped flag, whatever the chain is doing.                              *)
(***************************************************************************)
C16_StoreExclusive ==
    /\ [](\A t, u \in 1..Len(tasks) :
            (t # u /\ tasks[t].op = "Set" /\ InCritical(t)) => ~InCritical(u))
    /\ [](\A g \in 1..Len(tasks) :
            (tasks[g].op = "Get" /\ tasks[g].at = "returned") =>
                LET S == SetsOf(tasks[g].key) IN
                /\ S = {} => tasks[g].got = <<NilValue, FALSE>>
                /\ (S # {} /\ \A t \in S : /\ tasks[t].at = "returned"
                                            /\ tasks[t].ret <= tasks[g].since)
                     => tasks[g].got = <<tasks[LastOf(S)].value, TRUE>>)
    /\ []((\A t \in 1..Len(tasks) :
              tasks[t].op = "Get" \/ tasks[t].at \in {"Lock", "check"})
            => keys = NoKeys)
    /\ [][ (\E t \in 1..Len(tasks) :
               tasks[t].op = "Get" /\ tasks'[t] # tasks[t]) => keys' = keys ]_vars
    /\ [][ StoreStep => ctx' = ctx /\ stack' = stack ]_vars

\* while the chain is running, Set(k1, v1) and then Set(k1, v2) have
\* returned, and a Get(k1) that started after them has returned v2, true
C16_Witness ==
    /\ Len(tasks) = 3
    /\ stack # << >>
    /\ tasks[1].op = "Set" /\ tasks[1].value = "v1" /\ tasks[1].ret = 1
    /\ tasks[2].op = "Set" /\ tasks[2].value = "v2" /\ tasks[2].ret = 2
    /\ tasks[3].op = "Get" /\ tasks[3].key = "k1" /\ tasks[3].since = 2
    /\ tasks[3].at = "returned" /\ tasks[3].got = <<"v2", TRUE>>

(***************************************************************************)
(* C17.  A call of handle that ends with a panic (invalid method, conflict *)
(* or duplicate) leaves the trees of all methods, every node with its      *)
(* children, parameter child and chain, and the route list as they were:   *)
(* the call has created no node.                                           *)
(***************************************************************************)
C17_FailedChangesNothing ==
    [][ (calls' = calls + 1 /\ lastCall'.op = "handle" /\ lastCall'.err # "ok")
        => /\ nodes' = nodes
           /\ trees' = trees
           /\ routeList' = routeList
           /\ registered' = registered ]_vars

\* /a/b is registered and the registration of /a//b/ has ended with the
\* duplicate panic: the tree still is the root, a and b
C17_Witness ==
    /\ Len(registered) = 1 /\ registered[1].path = P_ab
    /\ lastCall.op = "handle" /\ lastCall.path = <<"/", "a", "/", "b", "/">>
    /\ lastCall.err = "duplicate"
    /\ Len(nodes) = 3 /\ Len(routeList) = 1

(***************************************************************************)
(* Vocabulary of the registry properties.                                  *)
(***************************************************************************)
\* the nodes, of the trees of all methods, that carry a chain
Carrying == {n \in 1..Len(nodes) : nodes[n].handlers.arr # 0}

\* rl is the beginning of rl2
Prefix(rl, rl2) == Len(rl) <= Len(rl2) /\ SubSeq(rl2, 1, Len(rl)) = rl

(***************************************************************************)
(* C18.  The route list holds one entry (method, path) for each successful *)
(* registration, in the order of the registrations, and as many entries as *)
(* there are nodes that carry a chain; no step removes or changes an       *)
(* entry, a successful registration appends exactly its own and a failed   *)
(* one appends none.                                                       *)
(***************************************************************************)
C18_RegistryAppendOnly ==
    /\ [](RegistryInOrder /\ Len(routeList) = Cardinality(Carrying))
    /\ [][ /\ Prefix(routeList, routeList')
           /\ (calls' = calls + 1 /\ lastCall'.op = "handle") =>
                IF lastCall'.err = "ok"
                THEN routeList' = Append(routeList,
                                    [Method |-> lastCall'.method,
                                     Path |-> lastCall'.path])
                ELSE routeList' = routeList ]_vars

\* three calls were made: one registered /a/b with no handlers, one
\* registered /a/:x and one failed
C18_Witness ==
    /\ calls = 3
    /\ Len(routeList) = 2
    /\ registered[1].chain = << >> /\ registered[1].path = P_ab
    /\ registered[2].path = P_ax
    /\ Cardinality(Carrying) = 2

(***************************************************************************)
(* C19.  A request whose path matches, segment by segment, a route that    *)
(* was registered for its method (literal segments equal, a parameter      *)
(* segment matching any segment) is resolved to a chain and not answered   *)
(* as not found.                                                           *)
(***************************************************************************)
C19_MatchingResolves ==
    (outcome # "idle" /\ ~NoRouteMatches(lookup.method, lookup.path)) =>
        /\ lookup.handlers.arr # 0
        /\ outcome # "notfound"

(***************************************************************************)
(* Vocabulary of the lookup properties.                                    *)
(***************************************************************************)
\* the step is an iteration of the loop of call c
Iterates(c) ==
    /\ c <= Len(finders) /\ Len(finders') = Len(finders)
    /\ finders[c].at = "loop" /\ finders[c].i <= Len(finders[c].parts)
    /\ finders'[c] # finders[c]

(***************************************************************************)
(* C20.  In each iteration of the loop of findRoute: when the node has a   *)
(* literal child whose key is the request segment, that child is taken and *)
(* the bindings stay as they are, also when the node has a parameter child *)
(* too; otherwise, when the node has a parameter child, it is taken and    *)
(* its stored name is bound to the segment; otherwise the call returns nil *)
(* handlers and nil bindings, whatever was bound before.                   *)
(***************************************************************************)
C20_LiteralPreferred ==
    [][ \A c \in 1..MaxFinders : Iterates(c) =>
          LET f == finders[c]
              f2 == finders'[c]
              part == f.parts[f.i]
              n == nodes[f.current]
          IN  IF part \in DOMAIN n.children
              THEN /\ f2.at = "loop" /\ f2.i = f.i + 1
                   /\ f2.current = n.children[part]
                   /\ f2.params = f.params /\ f2.alloc = f.alloc
              ELSE IF n.paramNode # 0
              THEN /\ f2.at = "loop" /\ f2.i = f.i + 1
                   /\ f2.current = n.paramNode
                   /\ f2.alloc
                   /\ DOMAIN f2.params
                        = DOMAIN f.params \cup {nodes[n.paramNode].segment}
                   /\ \A name \in DOMAIN f2.params :
                        f2.params[name] =
                            IF name = nodes[n.paramNode].segment THEN part
                            ELSE f.params[name]
              ELSE /\ f2.at = "returned"
                   /\ f2.handlers = NilSlice
                   /\ f2.params = << >> /\ ~f2.alloc ]_vars

\* on the tree of /a/b and /a/:x, the call for /a/b has taken the literal
\* child and returned its chain with no bindings, and the call for /a/v/c,
\* which had bound x to v, has failed at c and returned nothing
C20_Witness ==
    /\ Len(registered) = 2
    /\ registered[1].path = P_ab /\ registered[2].path = P_ax
    /\ Len(finders) = 2
    /\ finders[1].path = P_ab /\ finders[1].at = "returned"
    /\ finders[1].handlers = registered[1].slice
    /\ finders[1].params = << >> /\ ~finders[1].alloc
    /\ finders[2].path = P_avc /\ finders[2].at = "returned"
    /\ finders[2].i = 3
    /\ finders[2].handlers = NilSlice
    /\ finders[2].params = << >> /\ ~finders[2].alloc

(***************************************************************************)
(* Vocabulary of the per-method trees.                                     *)
(***************************************************************************)
\* findRoute returns for method m, after the step, what it returned before
\* it: the same slice with the same handlers, the same bindings
SameResults(m) ==
    \A q \in PathsTried :
        LET f == findRoute(nodes, trees, m, q)
            f2 == findRoute(nodes', trees', m, q)
        IN  /\ f2 = f
            /\ SliceSeq(arrays', f2.handlers) = SliceSeq(arrays, f.handlers)

\* a call of handle with a valid method leaves the other methods alone
OtherMethodsKept ==
    IsRegistration(calls, calls', lastCall') =>
        \A m \in Methods \ {lastCall'.method} :
            trees'[m] = trees[m] /\ SameResults(m)

\* a registration fails with a duplicate or a conflict only against a
\* route registered before for the same method; the first one made for a
\* method succeeds whatever was registered for other methods
ErrorsWithinMethod ==
    IsRegistration(calls, calls', lastCall') =>
        /\ lastCall'.err # "ok" =>
              \E i \in 1..Len(registered) :
                 registered[i].method = lastCall'.method
        /\ lastCall'.err = "duplicate" =>
              \E i \in 1..Len(registered) :
                 /\ registered[i].method = lastCall'.method
                 /\ Segments(registered[i].path) = Segments(lastCall'.path)
        /\ trees[lastCall'.method] = 0 => lastCall'.err = "ok"

\* the tree of a method comes to exist in a registration for that method
TreeMadeByRegistration ==
    \A m \in Methods :
        (trees[m] = 0 /\ trees'[m] # 0) =>
            IsRegistration(calls, calls', lastCall') /\ lastCall'.method = m

\* a method that has a tree has a registered route, and its root is its own
TreesApart ==
    \A m \in Methods :
        trees[m] # 0 =>
            /\ \E i \in 1..Len(registered) : registered[i].method = m
            /\ \A m2 \in Methods \ {m} : trees[m2] # trees[m]

(***************************************************************************)
(* C21.  Trees are per method and independent: a call that registers for   *)
(* method M, whether it succeeds or fails, changes the result of findRoute *)
(* for no other method; the same path is registered under different        *)
(* methods without a duplicate or conflict error; and the tree of a method *)
(* exists only after the first registration attempted for that method.     *)
(***************************************************************************)
C21_TreesPerMethod ==
    /\ []TreesApart
    /\ [][OtherMethodsKept]_vars
    /\ [][ErrorsWithinMethod]_vars
    /\ [][TreeMadeByRegistration]_vars

\* /a/b is registered for GET and then for POST, a third registration for
\* GET has failed, and the request POST /a/b was resolved to the second
C21_Witness ==
    /\ Len(registered) = 2
    /\ registered[1].method = GET /\ registered[1].path = P_ab
    /\ registered[2].method = POST /\ registered[2].path = P_ab
    /\ calls = 3 /\ lastCall.method = GET /\ lastCall.err = "duplicate"
    /\ lookup.method = POST /\ lookup.handlers = registered[2].slice
    /\ outcome = "done"

(***************************************************************************)
(* Vocabulary of termination.                                              *)
(***************************************************************************)
\* the Next() call of ServeHTTP has returned
NextReturned == outcome = "done"

\* the chain is aborted or the cursor is past it, every handler invoked
AbortedOrPastEnd ==
    \/ ctx.stopped
    \/ /\ ctx.index >= ctx.handlers.len
       /\ \A i \in 0..(ctx.handlers.len - 1) :
             \E k \in 1..Len(Invoked) : Invoked[k] = i

\* a handler panicked and no Recovery was in the chain before it
PanicLeft ==
    /\ outcome = "panic"
    /\ ~ctx.stopped
    /\ \E p \in Did("panic") : ~RecoveryBefore(p)

Conns == <<Locals>> \o parked

\* the chain positions whose handler was started in request r, in order
InvokedIn(r) ==
    LET starts == SelectSeq(r.trace, LAMBDA e : e[1] = "start")
    IN  [k \in 1..Len(starts) |-> starts[k][2]]

\* the chain positions whose handler did op in request r
DidIn(r, op) ==
    {r.trace[k][2] : k \in {j \in 1..Len(r.trace) : r.trace[j][1] = op}}

\* what the handlers of request r read from its store
ReadIn(r) ==
    LET gets == SelectSeq(r.trace, LAMBDA e : e[1] = "get")
    IN  {gets[k][3] : k \in 1..Len(gets)}

Least(S) == CHOOSE x \in S : \A y \in S : x <= y

\* the value of parameter x in the path of request r
OwnX(r) == splitClean(r.lookup.path)[2]

\* in every request the handlers run are those of its own chain, in
\* order, up to the first that the request itself aborted in; the chain is
\* stopped only when a handler of the request called Abort(), and the
\* cursor is where the request's own calls of Next() have put it
OwnChainOnly ==
    \A c \in 1..Len(Conns) :
        LET r == Conns[c]
            inv == InvokedIn(r)
            ab == DidIn(r, "abort")
        IN  /\ \A k \in 1..Len(inv) : inv[k] = k - 1
            /\ r.ctx.stopped <=> ab # {}
            /\ r.outcome = "running" =>
                  r.ctx.index \in {Len(inv) - 1, Len(inv)}
            /\ r.outcome = "done" =>
                  Len(inv) = IF ab = {} THEN r.ctx.handlers.len
                             ELSE Least(ab) + 1

\* in every request the store holds, and Get returns, only what the
\* request itself has Set: the parameter of its own path
OwnValuesOnly ==
    \A c \in 1..Len(Conns) :
        LET r == Conns[c] IN
        IF DidIn(r, "set") = {}
        THEN r.keys = NoKeys /\ ReadIn(r) = {}
        ELSE /\ r.keys = [alloc |-> TRUE, map |-> (StoreKey :> OwnX(r))]
             /\ ReadIn(r) \subseteq {<<OwnX(r), TRUE>>}
             /\ r.outcome = "done" => ReadIn(r) # {}

\* the step in which a goroutine enters ServeHTTP for a route gives it a
\* Context with the cursor at -1, not stopped, without keys, with the chain
\* of the route and the bindings of its own path
FreshContext ==
    (parked' = parked /\ outcome = "idle" /\ outcome' = "running") =>
        LET f == findRoute(nodes, trees, lookup'.method, lookup'.path) IN
        /\ ctx'.index = -1 /\ ~ctx'.stopped
        /\ keys' = NoKeys /\ mu' = Unlocked
        /\ ctx'.handlers = f.handlers
        /\ ctx'.Params = (ParamX :> splitClean(lookup'.path)[2])
        /\ trace' = << >> /\ resp' = NoResp

\* a switch between goroutines changes no request
SwitchKeeps ==
    parked' # parked =>
        {Conns'[c] : c \in 1..Len(Conns')} = {Conns[c] : c \in 1..Len(Conns)}

(***************************************************************************)
(* C23.  Every request gets a Context of its own, freshly made: cursor at  *)
(* -1, not aborted, no keys, its own bindings.  Under every interleaving   *)
(* of the requests served side by side, an Abort(), a Set() or a move of   *)
(* the cursor in one request changes neither the handlers that run in      *)
(* another request, nor their order, nor the values read there.            *)
(***************************************************************************)
C23_RequestsIndependent ==
    /\ []OwnChainOnly
    /\ []OwnValuesOnly
    /\ [][FreshContext]_vars
    /\ [][SwitchKeeps]_vars

\* GET /a/v has been aborted by its second handler and is not over yet,
\* with v stored under the key; POST /a/c, served by another goroutine,
\* has stored c meanwhile, has run all three handlers and has read c
C23_Witness ==
    /\ Len(parked) >= 1
    /\ parked[1].lookup.method = GET /\ parked[1].lookup.path = P_av
    /\ parked[1].outcome = "running" /\ parked[1].ctx.stopped
    /\ parked[1].keys.map = (StoreKey :> <<"v">>)
    /\ lookup.method = POST /\ lookup.path = P_ac
    /\ outcome = "done" /\ ~ctx.stopped
    /\ Invoked = <<0, 1, 2>>
    /\ ReadIn(Locals) = {<< <<"c">>, TRUE>>}

(***************************************************************************)
(* Vocabulary of the joined paths.                                         *)
(***************************************************************************)
\* the last call made a group: its prefix, the path given, the path made
Joined == lastCall.op = "Group" /\ Len(groups) >= 2

JoinPrefix == groups[Len(groups) - 1].Path

JoinRelative == lastCall.path

JoinResult == groups[Len(groups)].Path

EndsInSlash(p) == p # EmptyStr /\ p[Len(p)] = Slash

Rooted(p) == p # EmptyStr /\ p[1] = Slash

\* no two separators of p stand side by side
NoDoubleSlash(p) ==
    \A k \in 1..(Len(p) - 1) : ~(p[k] = Slash /\ p[k + 1] = Slash)

HasDots(p) == \E k \in 1..Len(p) : p[k] = "."

\* an empty relative path gives the prefix as it is
EmptyKeepsPrefix ==
    (Joined /\ JoinRelative = EmptyStr) => JoinResult = JoinPrefix

\* otherwise the result is the cleaned concatenation: separators are
\* single and, where no element is "." or "..", the segments are those of
\* the prefix followed by those of the relative path, rooted when the
\* concatenation is
CleanedConcatenation ==
    (Joined /\ JoinRelative # EmptyStr) =>
        /\ NoDoubleSlash(JoinResult)
        /\ (~HasDots(JoinPrefix) /\ ~HasDots(JoinRelative)) =>
              /\ Segments(JoinResult)
                    = Segments(JoinPrefix) \o Segments(JoinRelative)
              /\ Rooted(JoinResult) <=>
                    IF JoinPrefix = EmptyStr THEN Rooted(JoinRelative)
                    ELSE Rooted(JoinPrefix)

\* a relative path that ends in a separator gives a result that does
SlashKept ==
    (Joined /\ JoinRelative # EmptyStr /\ EndsInSlash(JoinRelative)) =>
        EndsInSlash(JoinResult)

\* a result that ends in a separator which the relative path does not
\* end in is the root, reached through "." or ".." elements of that path
SlashOnlyKeptOrRoot ==
    (Joined /\ JoinRelative # EmptyStr /\ ~EndsInSlash(JoinRelative)
        /\ EndsInSlash(JoinResult)) =>
        JoinResult = <<Slash>> /\ HasDots(JoinRelative)

(***************************************************************************)
(* C24 as stated.  joinPath returns the prefix unchanged when the relative *)
(* path is empty; otherwise it returns the cleaned concatenation, with     *)
(* redundant separators collapsed, which ends in "/" exactly when the      *)
(* relative path ends in "/".                                              *)
(***************************************************************************)
C24_SlashExactlyWhenRelative ==
    /\ EmptyKeepsPrefix
    /\ CleanedConcatenation
    /\ (Joined /\ JoinRelative # EmptyStr) =>
          (EndsInSlash(JoinResult) <=> EndsInSlash(JoinRelative))

(***************************************************************************)
(* C24, amended.  joinPath returns the prefix unchanged when the relative  *)
(* path is empty; otherwise it returns the cleaned concatenation, with     *)
(* redundant separators collapsed, which ends in "/" when the relative     *)
(* path ends in "/" and, when the relative path does not, only if the      *)
(* cleaned concatenation is the root "/" itself, which takes a relative    *)
(* path with "." or ".." elements.                                         *)
(***************************************************************************)
C24_JoinPath ==
    /\ EmptyKeepsPrefix
    /\ CleanedConcatenation
    /\ SlashKept
    /\ SlashOnlyKeptOrRoot

\* the group /a/ was given a subgroup with the path /a/: three separators
\* met and became one, and the separator at the end was kept
C24_Witness ==
    /\ Joined /\ Len(groups) = 3
    /\ JoinPrefix = <<"/", "a", "/">>
    /\ JoinRelative = <<"/", "a", "/">>
    /\ JoinResult = <<"/", "a", "/", "a", "/">>

(***************************************************************************)
(* Vocabulary of the method check.                                         *)
(***************************************************************************)
\* the step is a call of handle
IsHandle == calls' = calls + 1 /\ lastCall'.op = "handle"

\* a call of handle with a method that is not an upper-case word ends with
\* the invalid-method panic and leaves the engine as it was; no other call
\* ends with that panic
InvalidMethodRejected ==
    IsHandle =>
        /\ lastCall'.err = "invalid_method"
              <=> ~regEnLetterMatch(lastCall'.method)
        /\ ~regEnLetterMatch(lastCall'.method) =>
              /\ trees' = trees /\ nodes' = nodes
              /\ routeList' = routeList
              /\ arrays' = arrays /\ registered' = registered

\* no tree and no entry of the route list has such a method
NoInvalidMethodKept ==
    /\ \A m \in Methods : ~regEnLetterMatch(m) => trees[m] = 0
    /\ \A i \in 1..Len(routeList) : regEnLetterMatch(routeList[i].Method)

(***************************************************************************)
(* C25.  A registration through handle with a method string that is not    *)
(* one or more upper-case letters A-Z fails with the invalid-method panic  *)
(* before the tree or the route list is touched: no tree is made for the   *)
(* method and no route is listed.                                          *)
(***************************************************************************)
C25_InvalidMethodFails ==
    /\ []NoInvalidMethodKept
    /\ [][InvalidMethodRejected]_vars

\* GET /a/b is registered and the call after it, made with the method
\* "GEt", has failed: the engine has the one tree and the one route
C25_Witness ==
    /\ calls = 2 /\ Len(registered) = 1
    /\ lastCall.op = "handle" /\ lastCall.method = GEt
    /\ lastCall.err = "invalid_method"
    /\ trees[GET] # 0 /\ trees[GEt] = 0
    /\ Len(routeList) = 1 /\ Len(nodes) = 3

(***************************************************************************)
(* Vocabulary of the static children.                                      *)
(***************************************************************************)
\* the keys of the static children of all nodes
ChildKeys == UNION {DOMAIN nodes[n].children : n \in 1..Len(nodes)}

\* a static child is reached under its own segment, and is no parameter
ChildrenAreLiteral ==
    \A n \in 1..Len(nodes) :
        \A key \in DOMAIN nodes[n].children :
            /\ nodes[nodes[n].children[key]].segment = key
            /\ ~nodes[nodes[n].children[key]].param

\* a parameter segment is kept in the parameter child, without its colon
ParamsInParamNode ==
    \A n \in 1..Len(nodes) :
        nodes[n].paramNode # 0 =>
            /\ nodes[nodes[n].paramNode].param
            /\ ~HasPrefixColon(nodes[nodes[n].paramNode].segment)

(***************************************************************************)
(* C26.  In every reachable state no map of static children has a key that *)
(* begins with ":": such segments always go to the parameter child.  So    *)
(* the check of addRoute that looks the ":name" token up among the static  *)
(* children never ends a registration.                                     *)
(***************************************************************************)
C26_ParamCheckNeverFires ==
    /\ \A key \in ChildKeys : ~HasPrefixColon(key)
    /\ ChildrenAreLiteral
    /\ ParamsInParamNode
    /\ lastCall.err # "conflict_param"

\* /a/b and then /a/:x were registered: the parameter segment met a node
\* with the static child b and the check let it pass
C26_Witness ==
    /\ Len(registered) = 2
    /\ registered[1].path = P_ab /\ registered[2].path = P_ax
    /\ lastCall.err = "ok" /\ lastCall.path = P_ax
    /\ \E n \in 1..Len(nodes) :
          /\ DOMAIN nodes[n].children = {<<"b">>}
          /\ nodes[n].paramNode = registered[2].node

====
